---- MODULE Spec2Model ----
(***************************************************************************)
(* Agent orchestration layer of the Hackathon2025 backend.                 *)
(*                                                                         *)
(*   supervisor-agent/supervisor_agent.py  SupervisorAgent                 *)
(*   git-mcp-agent/mcp_client.py           GitHubMCPClient                 *)
(*   git-mcp-agent/agent.py                GitHubAgent                     *)
(*                                                                         *)
(* Texts (Python str) are sequences of tokens; containment of one text in  *)
(* another is containment as a contiguous run of tokens.                   *)
(***************************************************************************)
EXTENDS Integers, Sequences, FiniteSets, TLC

(***************************************************************************)
(* Bounds of the model.                                                    *)
(***************************************************************************)
\* number of user turns the supervisor serves in one run
MaxTurns == 2
\* number of tool calls executed in one run of the tool session
MaxCalls == 2
\* longest tool_calls list handed to one execute_tools
MaxList == 2
\* number of distinct paths requested in one run of the cache-fill workload
MaxFill == 52
\* number of repeated requests in one run of the cache-fill workload
MaxRereads == 2
\* longest query text handed to the registry
MaxQueryLen == 2
\* longest routing_rules list of a declarative table
MaxRules == 2

VARIABLES
    \* ---- SupervisorAgent (supervisor_agent.py) ----
    supPc,          \* position of the route_and_execute coroutine
    turns,          \* number of turns started so far
    bedrockClient,  \* self.bedrock_agent_client is not None
    regGithub,      \* what registry.get_agent_config("github-agent") finds
    gTask,          \* github_result_task
    bTask,          \* bedrock_result_task
    joined,         \* (github_result, bedrock_result) bound by the gather
    collateCalls,   \* arguments of every collate_responses call of this turn
    collateErr,     \* github_content / bedrock_content held across the await
    collation,      \* what the reconciliation query returned or raised
    supReturn,      \* what route_and_execute returned or raised
    dispatched,     \* the TaskRequests built so far, in order
    \* ---- GitHubMCPClient (mcp_client.py) ----
    hsPc,           \* position of the initialize coroutine
    hsReturn,       \* value returned by initialize (-1: not returned yet)
    session,        \* self.session is not None
    sessionId,      \* self.headers['Mcp-Session-Id'] ("none": header not set)
    tools,          \* self.tools: tool name -> [parameters, required]
    hsSent,         \* requests of the handshake put on the transport, in order
    hsRecv,         \* responses the handshake has read, in order
    rpcSent,        \* the tools/call requests put on the transport
    rpcCount,       \* number of tools/call requests put on the transport
    \* ---- GitHubAgent (agent.py) ----
    resultCache,    \* self._result_cache, in dict (insertion) order
    pc,             \* per query: position of its execute_tools coroutine
    calls,          \* per query: the tool calls taken from tool_calls so far
    results,        \* per query: the local list results
    issued,         \* number of tool calls taken so far, over all queries
    fresh,          \* number of distinct file paths requested so far
    \* ---- AgentRegistry (agent_registry.py) ----
    source,         \* the file config_file names, as load_config found it
    agents,         \* self.agents, in dict (insertion) order
    routingRules,   \* self.routing_rules
    defaultAgent,   \* self.default_agent
    lastCall,       \* the latest call served on the registry, and its result
    \* ---- SupervisorAgent.initialize (supervisor_agent.py) ----
    discovered,     \* per agent of self.agents: config['discovered_capabilities']
    initPc,         \* position of the initialize coroutine
    initRuns,       \* number of initialize calls started so far
    discSeen,       \* per agent: the outcome of its discovery in this initialize
    capCall,        \* the latest find_agents_by_capability call and its result
    \* ---- SupervisorAgent.query (supervisor_agent.py) ----
    conversation,   \* self.conversation
    queryPc,        \* position of the query coroutine
    queriesDone,    \* number of query calls started so far
    \* ---- A2AProtocol (a2a_protocol.py) ----
    messageHandlers,\* self.message_handlers: message type -> handler
    dispatch,       \* the latest handle_message call and its result
    \* ---- BedrockAgentClient.executor (bedrock_agent/client.py) ----
    poolQueue,      \* invocations submitted to the executor and not yet started
    poolRunning,    \* invocations a worker thread is running
    poolDone,       \* invocations that have returned
    poolSubmitted   \* number of invocations submitted so far

supVars == <<supPc, turns, bedrockClient, regGithub, gTask, bTask, joined,
             collateCalls, collateErr, collation, supReturn, dispatched>>

regVars == <<source, agents, routingRules, defaultAgent, lastCall>>

discVars == <<discovered, initPc, initRuns, discSeen, capCall>>

convVars == <<conversation, queryPc, queriesDone>>

a2aVars == <<messageHandlers, dispatch>>

poolVars == <<poolQueue, poolRunning, poolDone, poolSubmitted>>

extVars == <<discVars, convVars, a2aVars, poolVars>>

clientVars == <<hsPc, hsReturn, session, sessionId, tools, hsSent, hsRecv,
                rpcSent, rpcCount>>

agentVars == <<resultCache, pc, calls, results, issued, fresh>>

vars == <<supVars, clientVars, agentVars, regVars, extVars>>

(***************************************************************************)
(* Texts.                                                                  *)
(***************************************************************************)
\* t occurs in s as a contiguous run of tokens (Python: t in s)
Contains(s, t) ==
    \E i \in 0..(Len(s) - Len(t)) :
        \A j \in 1..Len(t) : s[i + j] = t[j]

(***************************************************************************)
(* Outcome of an awaited coroutine: a returned text, or a raised exception *)
(* whose str() is text.  The field ok is a ghost: it records whether the   *)
(* delegate did its work; no operator that models code reads it.           *)
(***************************************************************************)
Returned(t, good) == [exc |-> FALSE, text |-> t, ok |-> good]
Raised(t)         == [exc |-> TRUE,  text |-> t, ok |-> FALSE]

NoTask == [st |-> "none", out |-> Returned(<<>>, FALSE)]

\* BedrockAgentClient.query: result.strip() of the streamed completion (which
\* may be empty), or one of the exceptions it re-raises.
QueryOutcomes(answers) ==
    { Returned(t, t # <<>>) : t \in answers }
        \cup { Raised(<<"Bedrock agent is being throttled. Please try again later.">>) }

\* answers of the general-purpose agent to the user's query
BedrockAnswers == { <<"bedrock answer">>, <<>> }

\* httpx post to the git-mcp-agent /query endpoint, as execute_github_task
\* turns it into its return value
GithubHttpOutcomes ==
    { Returned(<<"repo/path/file.py">>, TRUE),
      Returned(<<"Error: ", "planner failed">>, FALSE),
      Returned(<<"No result from git-mcp-agent">>, FALSE),
      Returned(<<"Git-MCP-Agent error: ", "500">>, FALSE),
      Returned(<<"Failed to connect to github-agent: ", "timeout">>, FALSE) }

(***************************************************************************)
(* collate_responses helpers.                                              *)
(***************************************************************************)
\* a rendering that shows an exception without the "Error: " label
ContentUnlabeled(o) == o.text

\* x if not isinstance(x, Exception) else f"Error: {x}"
Content(o) == IF o.exc THEN <<"Error: ">> \o o.text ELSE o.text

\* f"GitHub Agent: {github_content}\n\nBedrock Agent: {bedrock_content}"
Concatenation(g, b) ==
    <<"GitHub Agent: ">> \o Content(g) \o <<"\n\nBedrock Agent: ">> \o Content(b)

\* a fallback that reports the reconciliation failure alone
NoteOnly(g, b, e) ==
    <<"(Note: Response collation failed: ">> \o e \o <<")">>

\* the fallback of the except branch
ConcatenationWithNote(g, b, e) ==
    Concatenation(g, b) \o <<"\n\n(Note: Response collation failed: ">> \o e \o <<")">>

\* what the reconciliation call may answer to the collation prompt built
\* from g and b: a faithful merge, a summary that drops both, nothing at all
CollationAnswers(g, b) ==
    { Content(g) \o <<" ">> \o Content(b), <<"summary">>, <<>> }

(***************************************************************************)
(* asyncio.gather(github_result_task, bedrock_result_task,                 *)
(*                return_exceptions=True)                                  *)
(* ready: the awaiting coroutine is resumed; raised: the await raises;     *)
(* results: the values bound when it does not.                             *)
(***************************************************************************)
GatherFailFast(g, b) ==
    LET gx == g.st = "done" /\ g.out.exc
        bx == b.st = "done" /\ b.out.exc
    IN  [ready   |-> gx \/ bx \/ (g.st = "done" /\ b.st = "done"),
         raised  |-> gx \/ bx,
         results |-> <<g.out, b.out>>]

Gather(g, b) ==
    [ready   |-> g.st = "done" /\ b.st = "done",
     raised  |-> FALSE,
     results |-> <<g.out, b.out>>]

(***************************************************************************)
(* SupervisorAgent.route_and_execute                                       *)
(***************************************************************************)
SupInit ==
    /\ supPc = "idle"
    /\ turns = 0
    /\ bedrockClient \in BOOLEAN
    /\ regGithub \in {"ok", "absent", "malformed"}
    /\ gTask = NoTask
    /\ bTask = NoTask
    /\ joined = <<>>
    /\ collateCalls = <<>>
    /\ collateErr = <<>>
    /\ collation = NoTask
    /\ supReturn = [kind |-> "none", text |-> <<>>]
    /\ dispatched = <<>>

\* lines 186-199: the task_id route_and_execute gives the TaskRequest for
\* target_agent in the turn-th turn
TurnTaskId(target_agent, turn) ==
    IF target_agent = "github-agent" THEN "github-task" ELSE "bedrock-task"

\* entry: the two TaskRequests are built (lines 182-199)
RouteAndExecute ==
    /\ supPc \in {"idle", "returned", "raised"}
    /\ turns < MaxTurns
    /\ turns' = turns + 1
    /\ supPc' = "create_github"
    /\ gTask' = NoTask
    /\ bTask' = NoTask
    /\ joined' = <<>>
    /\ collateCalls' = <<>>
    /\ collateErr' = <<>>
    /\ collation' = NoTask
    /\ supReturn' = [kind |-> "none", text |-> <<>>]
    /\ dispatched' = dispatched \o
         << [turn |-> turns + 1, target |-> "github-agent",
             task_id |-> TurnTaskId("github-agent", turns + 1)],
            [turn |-> turns + 1, target |-> "bedrock-agent-001",
             task_id |-> TurnTaskId("bedrock-agent-001", turns + 1)] >>
    /\ UNCHANGED <<bedrockClient, regGithub>>
    /\ UNCHANGED <<clientVars, agentVars, regVars, extVars>>

\* a variant that awaits the first delegation before issuing the second
CreateGithubTaskAwaited ==
    /\ supPc = "create_github"
    /\ gTask' = [gTask EXCEPT !.st = "scheduled"]
    /\ supPc' = "gather"
    /\ UNCHANGED <<turns, dispatched, bedrockClient, regGithub, bTask, joined, collateCalls,
                   collateErr, collation, supReturn>>
    /\ UNCHANGED <<clientVars, agentVars, regVars, extVars>>

\* line 202: asyncio.create_task(self.delegate_task(github_task, "github-agent"))
CreateGithubTask ==
    /\ supPc = "create_github"
    /\ gTask' = [gTask EXCEPT !.st = "scheduled"]
    /\ supPc' = "create_bedrock"
    /\ UNCHANGED <<turns, dispatched, bedrockClient, regGithub, bTask, joined, collateCalls,
                   collateErr, collation, supReturn>>
    /\ UNCHANGED <<clientVars, agentVars, regVars, extVars>>

\* line 203: asyncio.create_task(self.delegate_task(bedrock_task, "bedrock-agent-001"))
\* and the orchestrator reaches the await of line 209
CreateBedrockTask ==
    /\ supPc = "create_bedrock"
    /\ bTask' = [bTask EXCEPT !.st = "scheduled"]
    /\ supPc' = "gather"
    /\ UNCHANGED <<turns, dispatched, bedrockClient, regGithub, gTask, joined, collateCalls,
                   collateErr, collation, supReturn>>
    /\ UNCHANGED <<clientVars, agentVars, regVars, extVars>>

\* The event loop runs a created task only once the running coroutine is
\* suspended; ready tasks start in creation order.
Suspended == supPc = "gather"

\* delegate_task -> execute_github_task up to its first await (lines 135-160)
GithubTaskStart ==
    /\ Suspended
    /\ gTask.st = "scheduled"
    /\ gTask' =
         CASE regGithub = "absent" ->
                [st |-> "done",
                 out |-> Returned(<<"GitHub Agent not found in registry">>, FALSE)]
           [] regGithub = "malformed" ->
                \* agent_config.get on a registry entry that is no mapping: the
                \* AttributeError is raised outside the try block
                [st |-> "done",
                 out |-> Raised(<<"'str' object has no attribute 'get'">>)]
           [] OTHER -> [gTask EXCEPT !.st = "running"]
    /\ UNCHANGED <<supPc, turns, dispatched, bedrockClient, regGithub, bTask, joined,
                   collateCalls, collateErr, collation, supReturn>>
    /\ UNCHANGED <<clientVars, agentVars, regVars, extVars>>

\* the http round trip completes (lines 162-169)
GithubTaskFinish ==
    /\ Suspended
    /\ gTask.st = "running"
    /\ \E o \in GithubHttpOutcomes : gTask' = [st |-> "done", out |-> o]
    /\ UNCHANGED <<supPc, turns, dispatched, bedrockClient, regGithub, bTask, joined,
                   collateCalls, collateErr, collation, supReturn>>
    /\ UNCHANGED <<clientVars, agentVars, regVars, extVars>>

\* delegate_task -> execute_bedrock_task up to its first await (lines 137-177)
BedrockTaskStart ==
    /\ Suspended
    /\ bTask.st = "scheduled"
    /\ gTask.st # "scheduled"
    /\ bTask' =
         IF ~bedrockClient
         THEN [st |-> "done",
               out |-> Returned(<<"Bedrock agent not initialized">>, FALSE)]
         ELSE [bTask EXCEPT !.st = "running"]
    /\ UNCHANGED <<supPc, turns, dispatched, bedrockClient, regGithub, gTask, joined,
                   collateCalls, collateErr, collation, supReturn>>
    /\ UNCHANGED <<clientVars, agentVars, regVars, extVars>>

\* the query returns or raises (lines 176-180)
BedrockTaskFinish ==
    /\ Suspended
    /\ bTask.st = "running"
    /\ \E o \in QueryOutcomes(BedrockAnswers) :
         bTask' = [st |-> "done",
                   out |-> IF o.exc
                           THEN Returned(<<"Failed to execute Bedrock task: ">> \o o.text,
                                         FALSE)
                           ELSE o]
    /\ UNCHANGED <<supPc, turns, dispatched, bedrockClient, regGithub, gTask, joined,
                   collateCalls, collateErr, collation, supReturn>>
    /\ UNCHANGED <<clientVars, agentVars, regVars, extVars>>

\* lines 209-222, 225-250: the gather resumes the orchestrator, which calls
\* collate_responses; without a reconciliation client it returns the
\* concatenation at once, otherwise it awaits the reconciliation query
GatherAndCollate ==
    /\ supPc = "gather"
    /\ LET j == Gather(gTask, bTask)
           g == j.results[1]
           b == j.results[2]
       IN  /\ j.ready
           /\ IF j.raised
              THEN /\ supPc' = "raised"
                   /\ supReturn' = [kind |-> "raise", text |-> <<>>]
                   /\ UNCHANGED <<joined, collateCalls, collateErr>>
              ELSE /\ joined' = j.results
                   /\ collateCalls' = Append(collateCalls, <<g, b>>)
                   /\ IF ~bedrockClient
                      THEN /\ supPc' = "returned"
                           /\ supReturn' = [kind |-> "text", text |-> Concatenation(g, b)]
                           /\ collateErr' = <<>>
                      ELSE /\ supPc' = "await_collation"
                           /\ collateErr' = <<g, b>>
                           /\ UNCHANGED supReturn
    /\ UNCHANGED <<turns, dispatched, bedrockClient, regGithub, gTask, bTask, collation>>
    /\ UNCHANGED <<clientVars, agentVars, regVars, extVars>>

\* a reconciliation step without the except branch: the exception of the
\* reconciliation query leaves collate_responses and route_and_execute
CollationFinishUncaught ==
    /\ supPc = "await_collation"
    /\ \E o \in QueryOutcomes(CollationAnswers(collateErr[1], collateErr[2])) :
         /\ collation' = [st |-> "done", out |-> o]
         /\ supReturn' = IF o.exc
                         THEN [kind |-> "raise", text |-> o.text]
                         ELSE [kind |-> "text", text |-> o.text]
         /\ supPc' = IF o.exc THEN "raised" ELSE "returned"
    /\ UNCHANGED <<turns, dispatched, bedrockClient, regGithub, gTask, bTask, joined,
                   collateCalls, collateErr>>
    /\ UNCHANGED <<clientVars, agentVars, regVars, extVars>>

\* lines 249-254: the reconciliation query returns or raises
CollationFinish ==
    /\ supPc = "await_collation"
    /\ \E o \in QueryOutcomes(CollationAnswers(collateErr[1], collateErr[2])) :
         /\ collation' = [st |-> "done", out |-> o]
         /\ supReturn' =
              [kind |-> "text",
               text |-> IF o.exc
                        THEN ConcatenationWithNote(collateErr[1], collateErr[2], o.text)
                        ELSE o.text]
    /\ supPc' = "returned"
    /\ UNCHANGED <<turns, dispatched, bedrockClient, regGithub, gTask, bTask, joined,
                   collateCalls, collateErr>>
    /\ UNCHANGED <<clientVars, agentVars, regVars, extVars>>

(***************************************************************************)
(* Data of the tool session.                                               *)
(***************************************************************************)
\* the concurrent queries served by one GitHubAgent (server.py process_query),
\* named in the order of their arrival
QueryOrder == <<"q1", "q2">>
Queries == { QueryOrder[i] : i \in 1..Len(QueryOrder) }

\* agent.py lines 174-177
CacheableTools ==
    {"search_repositories", "search_code", "get_file_contents", "list_issues", "get_me"}

\* parameter names, in the order Python sorts them
ParamOrder == <<"owner", "path", "query">>

\* A Python dict of arguments is a sequence of <<key, value>> pairs with
\* distinct keys, in insertion order.
Keys(args) == { args[i][1] : i \in 1..Len(args) }
Get(args, k) == (CHOOSE i \in 1..Len(args) : args[i][1] = k)
Value(args, k) == args[Get(args, k)][2]

\* dict equality: the same key/value pairs, in any order
SamePairs(a, b) == { a[i] : i \in 1..Len(a) } = { b[i] : i \in 1..Len(b) }

\* an entry of a tools/list response; wellFormed is FALSE for an entry that
\* lacks "description" or "inputSchema" (the subscript raises KeyError)
ToolEntry(n, ps, req) ==
    [name |-> n, wellFormed |-> TRUE, parameters |-> ps, required |-> req]
Malformed(n) ==
    [name |-> n, wellFormed |-> FALSE, parameters |-> {}, required |-> <<>>]

SearchCode   == ToolEntry("search_code", {"owner", "query"}, <<"query">>)
CreateIssue  == ToolEntry("create_issue", {"owner", "query"}, <<"owner", "query">>)
GetFile      == ToolEntry("get_file_contents", {"path"}, <<"path">>)
SearchCodeV2 == ToolEntry("search_code", {"query"}, <<"query", "ref">>)

\* the tool lists a provider may answer tools/list with
ToolLists ==
    { <<SearchCode, CreateIssue, GetFile>>,
      <<SearchCodeV2, SearchCode, GetFile>>,
      <<GetFile, Malformed("search_code"), CreateIssue>>,
      <<SearchCode, SearchCodeV2>>,
      <<>> }

\* Responses on the transport.  kind "exception": the post raised
\* (connection failure, timeout).  body "not_json": response.json() raises.
NoList == <<>>
HttpResponse(st, sid, b, l) ==
    [kind |-> "response", status |-> st, sid |-> sid, body |-> b, list |-> l]
TransportError ==
    [kind |-> "exception", status |-> 0, sid |-> "none", body |-> "none", list |-> NoList]

InitializeResponses ==
    { HttpResponse(200, "none", "result", NoList),
      HttpResponse(200, "sid-1", "result", NoList),
      HttpResponse(401, "none", "error", NoList),
      TransportError }

NotificationResponses ==
    { HttpResponse(202, "none", "none", NoList),
      HttpResponse(400, "none", "error", NoList),
      TransportError }

ToolsListResponses ==
    { HttpResponse(200, "none", "result", l) : l \in ToolLists }
        \cup { HttpResponse(200, "none", "error", NoList),
               HttpResponse(200, "none", "other", NoList),
               HttpResponse(200, "none", "not_json", NoList),
               HttpResponse(500, "none", "error", NoList),
               TransportError }

(***************************************************************************)
(* GitHubMCPClient.initialize (mcp_client.py lines 38-117)                 *)
(***************************************************************************)
\* a request built without the session header
RequestWithoutSession(method) == [method |-> method, sid |-> "none"]

\* a post with self.headers: the request carries the Mcp-Session-Id header
\* as it is set at that time
Request(method) == [method |-> method, sid |-> sessionId]

ClientInit ==
    /\ hsPc = "not_started"
    /\ hsReturn = -1
    /\ session = FALSE
    /\ sessionId = "none"
    /\ tools = <<>>
    /\ hsSent = <<>>
    /\ hsRecv = <<>>
    /\ rpcSent = {}
    /\ rpcCount = 0

\* line 65 negated, with every response taken for a success
InitializeAcceptedAlways(r) == TRUE

\* line 65: the handshake goes on only if init_response.status_code is 200
InitializeAccepted(r) == r.status = 200

\* lines 100-105: the loop over data["result"]["tools"], from table t on;
\* a malformed entry raises and leaves what was stored before it
RECURSIVE Populate(_, _)
Populate(t, list) ==
    IF list = <<>>
    THEN [table |-> t, raised |-> FALSE]
    ELSE LET e == Head(list)
         IN  IF ~e.wellFormed
             THEN [table |-> t, raised |-> TRUE]
             ELSE Populate(
                    [n \in (DOMAIN t) \cup {e.name} |->
                        IF n = e.name
                        THEN [parameters |-> e.parameters, required |-> e.required]
                        ELSE t[n]],
                    Tail(list))

\* the handshake returns n (the except branch and every return of initialize)
HsReturn(n) ==
    /\ hsPc' = "returned"
    /\ hsReturn' = n

\* lines 39-63: the client is created and the initialize request is posted
Initialize ==
    /\ hsPc = "not_started"
    /\ session' = TRUE
    /\ hsSent' = Append(hsSent, Request("initialize"))
    /\ hsPc' = "await_initialize"
    /\ UNCHANGED <<hsReturn, sessionId, tools, hsRecv, rpcSent, rpcCount>>
    /\ UNCHANGED <<supVars, agentVars, regVars, extVars>>

\* lines 65-81: the initialize response is read; on success the session id
\* is kept and the initialized notification is posted
InitializeResponse ==
    /\ hsPc = "await_initialize"
    /\ \E r \in InitializeResponses :
         /\ hsRecv' = Append(hsRecv, r)
         /\ IF r.kind = "exception" \/ ~InitializeAccepted(r)
            THEN /\ HsReturn(0)
                 /\ UNCHANGED <<sessionId, hsSent>>
            ELSE /\ sessionId' = IF r.sid # "none" THEN r.sid ELSE sessionId
                 /\ hsSent' = Append(hsSent,
                                     [method |-> "notifications/initialized",
                                      sid |-> sessionId'])
                 /\ hsPc' = "await_notification"
                 /\ UNCHANGED hsReturn
    /\ UNCHANGED <<session, tools, rpcSent, rpcCount>>
    /\ UNCHANGED <<supVars, agentVars, regVars, extVars>>

\* lines 74-93: the notification's post completes (its response is not
\* looked at) or raises; then tools/list is posted
NotificationResponse ==
    /\ hsPc = "await_notification"
    /\ \E r \in NotificationResponses :
         /\ hsRecv' = Append(hsRecv, r)
         /\ IF r.kind = "exception"
            THEN /\ HsReturn(0)
                 /\ UNCHANGED hsSent
            ELSE /\ hsSent' = Append(hsSent, Request("tools/list"))
                 /\ hsPc' = "await_tools_list"
                 /\ UNCHANGED hsReturn
    /\ UNCHANGED <<session, sessionId, tools, rpcSent, rpcCount>>
    /\ UNCHANGED <<supVars, agentVars, regVars, extVars>>

\* lines 95-117: the tools/list response is read and the table populated
ToolsListResponse ==
    /\ hsPc = "await_tools_list"
    /\ \E r \in ToolsListResponses :
         /\ hsRecv' = Append(hsRecv, r)
         /\ IF r.kind = "response" /\ r.status = 200 /\ r.body = "result"
            THEN LET p == Populate(tools, r.list)
                 IN  /\ tools' = p.table
                     /\ HsReturn(IF p.raised THEN 0 ELSE Cardinality(DOMAIN p.table))
            ELSE /\ HsReturn(0)
                 /\ UNCHANGED tools
    /\ UNCHANGED <<session, sessionId, hsSent, rpcSent, rpcCount>>
    /\ UNCHANGED <<supVars, agentVars, regVars, extVars>>

(***************************************************************************)
(* GitHubAgent: the result cache (agent.py)                                *)
(***************************************************************************)
\* agent.py line 216: the cache is cut back when it holds more entries
CacheLimit == 50
\* agent.py line 218: the number of entries removed in one batch
EvictBatch == 10

\* json.dumps(arguments, sort_keys=True): the pairs in the order of their keys
JsonDumpsSorted(args) ==
    LET present == SelectSeq(ParamOrder, LAMBDA k : k \in Keys(args))
    IN  [i \in 1..Len(present) |-> <<present[i], Value(args, present[i])>>]

\* json.dumps(arguments): the pairs in insertion order
JsonDumps(args) == args

\* the key computed without sort_keys
GetCacheKeyUnsorted(tool_name, arguments) ==
    <<tool_name, ":", JsonDumps(arguments)>>

\* _get_cache_key, lines 327-331.  hashlib.md5 is taken to be free of
\* collisions on the key data: a digest is represented by the data digested.
GetCacheKey(tool_name, arguments) ==
    <<tool_name, ":", JsonDumpsSorted(arguments)>>

CacheKeys(c) == { c[i].key : i \in 1..Len(c) }
Lookup(c, k) == c[CHOOSE i \in 1..Len(c) : c[i].key = k].value

\* self._result_cache[cache_key] = tool_result: a key already present keeps
\* its place in the dict order, a new key goes last
Store(c, k, v) ==
    IF k \in CacheKeys(c)
    THEN [i \in 1..Len(c) |-> IF c[i].key = k THEN [key |-> k, value |-> v] ELSE c[i]]
    ELSE Append(c, [key |-> k, value |-> v])

\* a cut that removes the entries stored last
LimitCacheNewest(c) ==
    IF Len(c) > CacheLimit THEN SubSeq(c, 1, Len(c) - EvictBatch) ELSE c

\* a store that is not followed by the cut
LimitCacheNever(c) == c

\* lines 216-220: over the limit, the first EvictBatch keys of the dict are
\* deleted
LimitCache(c) ==
    IF Len(c) > CacheLimit
    THEN SubSeq(c, EvictBatch + 1, Len(c))
    ELSE c

(***************************************************************************)
(* Results of execute_tools.  A result is a Python dict; has is the set of *)
(* its keys, and a key that is absent has an empty value here.             *)
(***************************************************************************)
\* lines 205-209
ToolResult(name, args, payload) ==
    [has |-> {"tool", "arguments", "result"},
     tool |-> name, arguments |-> args, result |-> payload, error |-> <<>>]

\* lines 185-188 and 196-199
CheckError(name, message) ==
    [has |-> {"tool", "error"},
     tool |-> name, arguments |-> <<>>, result |-> "", error |-> message]

\* lines 223-227
CallError(name, args, message) ==
    [has |-> {"tool", "arguments", "error"},
     tool |-> name, arguments |-> args, result |-> "", error |-> message]

\* a parameter check that finds nothing missing
MissingParamsNone(tool_info, arguments) == <<>>

\* line 193: [p for p in tool_info["required"] if p not in arguments]
MissingParams(tool_info, arguments) ==
    SelectSeq(tool_info.required, LAMBDA p : p \notin Keys(arguments))

\* a cacheable test that lets every tool name through
IsCacheableAny(tool_name) == TRUE

\* line 178: tool_name in cacheable_tools
IsCacheable(tool_name) == tool_name \in CacheableTools

\* what the provider answers to tools/call, as call_tool (lines 151-160)
\* turns it into a return value or an exception
ToolCallOutcomes ==
    { [exc |-> FALSE, payload |-> "payload-1", text |-> <<>>],
      [exc |-> FALSE, payload |-> "payload-2", text |-> <<>>],
      [exc |-> TRUE,  payload |-> "", text |-> <<"Tool error: ", "not found">>] }

\* the provider of the cache-fill workload answers every call
FillOutcomes == { [exc |-> FALSE, payload |-> "payload-1", text |-> <<>>] }

AgentInit ==
    /\ resultCache = <<>>
    /\ pc = [q \in Queries |-> "idle"]
    /\ calls = [q \in Queries |-> <<>>]
    /\ results = [q \in Queries |-> <<>>]
    /\ issued = 0
    /\ fresh = 0

\* query -> execute_tools(plan["tool_calls"]), lines 165-166; server.py and
\* cli.py serve queries once the startup handshake has returned
ExecuteTools(q) ==
    /\ hsPc = "returned"
    /\ pc[q] \in {"idle", "returned"}
    /\ \A i \in 1..Len(QueryOrder) :
         (QueryOrder[i] = q) => (\A j \in 1..(i - 1) : pc[QueryOrder[j]] # "idle")
    /\ pc' = [pc EXCEPT ![q] = "loop"]
    /\ calls' = [calls EXCEPT ![q] = <<>>]
    /\ results' = [results EXCEPT ![q] = <<>>]
    /\ UNCHANGED <<resultCache, issued, fresh>>
    /\ UNCHANGED <<supVars, clientVars, regVars, extVars>>

\* line 230: the loop is over and results is returned
ExecuteToolsReturn(q) ==
    /\ pc[q] = "loop"
    /\ pc' = [pc EXCEPT ![q] = "returned"]
    /\ UNCHANGED <<resultCache, calls, results, issued, fresh>>
    /\ UNCHANGED <<supVars, clientVars, regVars, extVars>>

\* a pass of the loop body without the test of lines 184-190: a tool that is
\* not in the tool table is called all the same
ToolCallUnchecked(q, name, args) ==
    /\ pc[q] = "loop"
    /\ calls' = [calls EXCEPT ![q] = Append(@, [name |-> name, arguments |-> args])]
    /\ LET key == GetCacheKey(name, args)
           done(r) == /\ results' = [results EXCEPT ![q] = Append(@, r)]
                      /\ UNCHANGED <<pc, rpcSent, rpcCount>>
       IN  IF IsCacheable(name) /\ key \in CacheKeys(resultCache)
           THEN done(Lookup(resultCache, key))
           ELSE IF name \in DOMAIN tools /\ MissingParams(tools[name], args) # <<>>
           THEN done(CheckError(name, <<"Missing required parameters: ">>
                                         \o MissingParams(tools[name], args)))
           ELSE /\ rpcSent' = rpcSent \cup
                                {[name |-> name, arguments |-> args, sid |-> sessionId]}
                /\ rpcCount' = rpcCount + 1
                /\ pc' = [pc EXCEPT ![q] = "await_rpc"]
                /\ UNCHANGED results
    /\ UNCHANGED <<resultCache, hsPc, hsReturn, session, sessionId, tools, hsSent, hsRecv>>
    /\ UNCHANGED <<supVars, regVars, extVars>>

\* One pass of the loop body for the tool call (name, args), lines 169-204,
\* up to the next iteration or to the await inside call_tool.
ToolCall(q, name, args) ==
    /\ pc[q] = "loop"
    /\ calls' = [calls EXCEPT ![q] = Append(@, [name |-> name, arguments |-> args])]
    /\ LET key == GetCacheKey(name, args)
           done(r) == /\ results' = [results EXCEPT ![q] = Append(@, r)]
                      /\ UNCHANGED <<pc, rpcSent, rpcCount>>
       IN  IF IsCacheable(name) /\ key \in CacheKeys(resultCache)
           THEN done(Lookup(resultCache, key))
           ELSE IF name \notin DOMAIN tools
           THEN done(CheckError(name, <<"Tool '", name, "' not available">>))
           ELSE IF MissingParams(tools[name], args) # <<>>
           THEN done(CheckError(name, <<"Missing required parameters: ">>
                                         \o MissingParams(tools[name], args)))
           ELSE IF ~session
           THEN done(CallError(name, args, <<"MCP session not initialized">>))
           ELSE /\ rpcSent' = rpcSent \cup
                                {[name |-> name, arguments |-> args, sid |-> sessionId]}
                /\ rpcCount' = rpcCount + 1
                /\ pc' = [pc EXCEPT ![q] = "await_rpc"]
                /\ UNCHANGED results
    /\ UNCHANGED <<resultCache, hsPc, hsReturn, session, sessionId, tools, hsSent, hsRecv>>
    /\ UNCHANGED <<supVars, regVars, extVars>>

\* a loop body without the handler of lines 222-228: an exception of
\* call_tool ends execute_tools
ToolCallDoneUncaught(q, o) ==
    /\ pc[q] = "await_rpc"
    /\ LET c    == calls[q][Len(calls[q])]
           key  == GetCacheKey(c.name, c.arguments)
           res  == ToolResult(c.name, c.arguments, o.payload)
       IN  IF o.exc
           THEN /\ pc' = [pc EXCEPT ![q] = "raised"]
                /\ UNCHANGED <<results, resultCache>>
           ELSE /\ results' = [results EXCEPT ![q] = Append(@, res)]
                /\ resultCache' = IF IsCacheable(c.name)
                                  THEN LimitCache(Store(resultCache, key, res))
                                  ELSE resultCache
                /\ pc' = [pc EXCEPT ![q] = "loop"]
    /\ UNCHANGED <<calls, issued, fresh>>
    /\ UNCHANGED <<supVars, clientVars, regVars, extVars>>

\* a loop body that stores the error result of a failed call as well
ToolCallDoneCachesErrors(q, o) ==
    /\ pc[q] = "await_rpc"
    /\ LET c    == calls[q][Len(calls[q])]
           key  == GetCacheKey(c.name, c.arguments)
           res  == IF o.exc
                   THEN CallError(c.name, c.arguments, o.text)
                   ELSE ToolResult(c.name, c.arguments, o.payload)
       IN  /\ results' = [results EXCEPT ![q] = Append(@, res)]
           /\ resultCache' = IF IsCacheable(c.name)
                             THEN LimitCache(Store(resultCache, key, res))
                             ELSE resultCache
    /\ pc' = [pc EXCEPT ![q] = "loop"]
    /\ UNCHANGED <<calls, issued, fresh>>
    /\ UNCHANGED <<supVars, clientVars, regVars, extVars>>

\* call_tool returns or raises, lines 204-228: the result is appended and,
\* for a cacheable tool, stored and the cache cut back
ToolCallDone(q, o) ==
    /\ pc[q] = "await_rpc"
    /\ LET c    == calls[q][Len(calls[q])]
           key  == GetCacheKey(c.name, c.arguments)
           res  == ToolResult(c.name, c.arguments, o.payload)
       IN  IF o.exc
           THEN /\ results' = [results EXCEPT ![q] =
                                  Append(@, CallError(c.name, c.arguments, o.text))]
                /\ UNCHANGED resultCache
           ELSE /\ results' = [results EXCEPT ![q] = Append(@, res)]
                /\ resultCache' = IF IsCacheable(c.name)
                                  THEN LimitCache(Store(resultCache, key, res))
                                  ELSE resultCache
    /\ pc' = [pc EXCEPT ![q] = "loop"]
    /\ UNCHANGED <<calls, issued, fresh>>
    /\ UNCHANGED <<supVars, clientVars, regVars, extVars>>

(***************************************************************************)
(* Workloads: the tool calls the planner hands to execute_tools.           *)
(***************************************************************************)
CallNames == {"search_code", "create_issue"}

ArgMaps ==
    { << <<"query", "x">>, <<"owner", "y">> >>,
      << <<"owner", "y">>, <<"query", "x">> >>,
      << <<"query", "z">> >> }

\* every query id stands for one request
FirstQuery(q) ==
    /\ pc[q] = "idle"
    /\ ExecuteTools(q)

\* the next tool call of the list of query q, and its result or its request
NextCall(q) ==
    /\ issued < MaxCalls
    /\ Len(calls[q]) < MaxList
    /\ \E name \in CallNames, args \in ArgMaps : ToolCall(q, name, args)
    /\ issued' = issued + 1
    /\ fresh' = fresh

CallDone(q) == \E o \in ToolCallOutcomes : ToolCallDone(q, o)

\* Cache-fill workload: on a session that offers get_file_contents, one
\* query after the other calls it on numbered paths.  Paths are numbered in the order of their first use; a
\* call names the next new path, or reads again the first path, a path at
\* the edge of the first evicted batch, or the newest path.
FilePath(n) == << <<"path", n>> >>

FillChoices ==
    { n \in {1, EvictBatch, EvictBatch + 1, fresh, fresh + 1} :
        /\ n >= 1
        /\ n <= fresh + 1
        /\ n <= MaxFill }

FillQuery(q) ==
    /\ q = QueryOrder[1]
    /\ "get_file_contents" \in DOMAIN tools
    /\ ExecuteTools(q)

FillCall(q) ==
    /\ Len(calls[q]) < MaxList
    /\ \E n \in FillChoices :
         /\ n <= fresh => issued - fresh < MaxRereads
         /\ ToolCall(q, "get_file_contents", FilePath(n))
         /\ fresh' = IF n > fresh THEN n ELSE fresh
    /\ issued' = issued + 1

FillDone(q) == \E o \in FillOutcomes : ToolCallDone(q, o)

(***************************************************************************)
(* AgentRegistry (agent_registry.py).  A query and a keyword are texts of  *)
(* characters; agent keys and agent ids are atoms.                         *)
(***************************************************************************)
\* Python None, among agent ids
None == "None"

\* the characters of queries
Alphabet == {"I", "s"}

\* str.lower(), character by character
LowerChar(c) == IF c = "I" THEN "i" ELSE c
Lower(t) == [i \in 1..Len(t) |-> LowerChar(t[i])]

\* the texts of at most n characters
Texts(n) == UNION { [1..k -> Alphabet] : k \in 0..n }

\* agent_registry.py line 60: the priority of a rule that names none
DefaultPriority == 999

\* a routing rule of the declarative table; hasPriority is FALSE for a rule
\* without the key 'priority'
Rule(kw, a, p) == [keywords |-> kw, agent |-> a, priority |-> p, hasPriority |-> TRUE]
RuleNoPriority(kw, a) == [keywords |-> kw, agent |-> a, priority |-> 0, hasPriority |-> FALSE]

IssueRule    == Rule(<< <<"i", "s">> >>, "github-agent", 1)
TieRule      == Rule(<< <<"s", "s">>, <<"s">> >>, "bedrock-agent-001", 1)
UpperRule    == Rule(<< <<"I">> >>, "code-agent", 0)
CatchAllRule == Rule(<< <<>> >>, "docs-agent", 5)
UnrankedRule == RuleNoPriority(<< <<"i">> >>, "code-agent")

RulePool == {IssueRule, TieRule, UpperRule, CatchAllRule, UnrankedRule}

\* the routing_rules lists of the tables
RuleLists == UNION { [1..k -> RulePool] : k \in 0..MaxRules }

\* an agent descriptor; id is None for a descriptor without the key 'id'
Descriptor(i, n) == [id |-> i, name |-> n]

\* the agents mappings of the tables: <<key, descriptor>> in file order
AgentTables ==
    { <<>>,
      << <<"github-agent", Descriptor("github-agent-001", "GitHub Agent")>>,
         <<"bedrock", Descriptor("bedrock-agent-001", "Bedrock Agent")>>,
         <<"docs-agent", Descriptor("docs-agent-001", "Docs Agent")>> >>,
      << <<"a1", Descriptor("github-agent", "First")>>,
         <<"github-agent", Descriptor("bedrock-agent-001", "Second")>>,
         <<"a3", Descriptor("bedrock-agent-001", "Third")>>,
         <<"a4", Descriptor(None, "Fourth")>> >> }

\* the file config_file names: absent, not a YAML mapping, or a table
MissingSource ==
    [kind |-> "missing", agents |-> <<>>, routing_rules |-> <<>>,
     hasDefault |-> FALSE, default_agent |-> None]
MalformedSource ==
    [kind |-> "malformed", agents |-> <<>>, routing_rules |-> <<>>,
     hasDefault |-> FALSE, default_agent |-> None]
Table(a, r, hd, d) ==
    [kind |-> "table", agents |-> a, routing_rules |-> r,
     hasDefault |-> hd, default_agent |-> d]

Sources ==
    {MissingSource, MalformedSource}
        \cup { Table(a, r, FALSE, None) : a \in AgentTables, r \in RuleLists }
        \cup { Table(<<>>, r, TRUE, "bedrock-agent-001") : r \in RuleLists }

\* __init__ and load_config, lines 8-34: the fields of the registry after
\* construction from source src
LoadConfig(src) ==
    IF src.kind = "missing"
    THEN [agents |-> <<>>, routing_rules |-> <<>>, default_agent |-> None]
    ELSE IF src.kind = "malformed"
    THEN [agents |-> <<>>, routing_rules |-> <<>>, default_agent |-> None]
    ELSE [agents |-> src.agents,
          routing_rules |-> src.routing_rules,
          default_agent |-> IF src.hasDefault THEN src.default_agent ELSE "github-agent"]

\* truth value of an agent id (None and the empty string are falsy)
TruthyId(a) == a # None /\ a # ""

\* rule.get('priority', 999)
RulePriority(rule) == IF rule.hasPriority THEN rule.priority ELSE DefaultPriority

\* line 62: any(keyword in query_lower for keyword in keywords)
Matches(rule, query_lower) ==
    \E i \in 1..Len(rule.keywords) : Contains(query_lower, rule.keywords[i])

\* a comparison that also takes a rule of equal priority
BetterPriorityOrEqual(priority, st) == st.inf \/ priority <= st.highest_priority

\* line 63: priority < highest_priority (inf: highest_priority is float('inf'))
BetterPriority(priority, st) == st.inf \/ priority < st.highest_priority

\* lines 58-65: the loop over the rules, from loop state st on
RECURSIVE ScanRules(_, _, _)
ScanRules(rules, query_lower, st) ==
    IF rules = <<>>
    THEN st
    ELSE LET rule == Head(rules)
         IN  ScanRules(Tail(rules), query_lower,
                       IF /\ Matches(rule, query_lower)
                          /\ BetterPriority(RulePriority(rule), st)
                       THEN [inf |-> FALSE,
                             highest_priority |-> RulePriority(rule),
                             best_match |-> rule.agent]
                       ELSE st)

\* route_query, lines 52-67
RouteQuery(rules, default_agent, query) ==
    LET st == ScanRules(rules, Lower(query),
                        [inf |-> TRUE, highest_priority |-> 0, best_match |-> None])
    IN  IF TruthyId(st.best_match) THEN st.best_match ELSE default_agent

\* what get_agent_config returns: a descriptor, or None
NoDescriptor == Descriptor(None, "")
Found(d) == [found |-> TRUE, config |-> d]
NotFound == [found |-> FALSE, config |-> NoDescriptor]

\* lines 40-43: the scan of the descriptors for one whose id is agent_key
RECURSIVE ScanIds(_, _)
ScanIds(table, agent_key) ==
    IF table = <<>>
    THEN NotFound
    ELSE IF Head(table)[2].id = agent_key
         THEN Found(Head(table)[2])
         ELSE ScanIds(Tail(table), agent_key)

\* a lookup that tries the ids before the keys
GetAgentConfigIdFirst(table, agent_key) ==
    IF ScanIds(table, agent_key).found
    THEN ScanIds(table, agent_key)
    ELSE IF \E i \in 1..Len(table) : table[i][1] = agent_key
         THEN Found(table[CHOOSE i \in 1..Len(table) : table[i][1] = agent_key][2])
         ELSE NotFound

\* get_agent_config, lines 36-43
GetAgentConfig(table, agent_key) ==
    IF \E i \in 1..Len(table) : table[i][1] = agent_key
    THEN Found(table[CHOOSE i \in 1..Len(table) : table[i][1] = agent_key][2])
    ELSE ScanIds(table, agent_key)

\* a registry that reports every agent as available
IsAgentAvailableAlways(table, agent_key) == TRUE

\* is_agent_available, lines 96-98
IsAgentAvailable(table, agent_key) == GetAgentConfig(table, agent_key).found

\* a2a_protocol.py TaskResponse; result and error are None or a text
NoValue == [none |-> TRUE, text |-> <<>>]
TextValue(t) == [none |-> FALSE, text |-> t]
TaskResponse(id, st, res, err) ==
    [task_id |-> id, status |-> st, result |-> res, error |-> err, agent_id |-> None]
NoResponse == TaskResponse(None, "none", NoValue, NoValue)

\* supervisor_agent.py line 14: self.agent_id
SupervisorId == "supervisor-001"

\* the sender_id of the task_request messages handled
Senders == {"client-1", "supervisor-001"}

\* a message addressed to its own sender
ToMessageToSelf(response, recipient_id) ==
    [sender_id |-> response.agent_id, recipient_id |-> response.agent_id,
     message_type |-> "task_response", content |-> response]

\* a2a_protocol.py TaskResponse.to_message, lines 54-60
ToMessage(response, recipient_id) ==
    [sender_id |-> response.agent_id, recipient_id |-> recipient_id,
     message_type |-> "task_response", content |-> response]
NoMessage ==
    [sender_id |-> None, recipient_id |-> None, message_type |-> "none",
     content |-> NoResponse]

\* the values str(uuid.uuid4()) returns
Uuids == {"uuid-1", "uuid-2"}

\* the task_id a task_request message carries: None, empty, or an id
SuppliedIds == {None, "", "t-1"}

\* a TaskRequest whose construction always generates its id
PostInitAlwaysGenerates(task_id, uuid) == uuid

\* a2a_protocol.py TaskRequest.__post_init__, lines 41-43: uuid is what
\* uuid.uuid4() returns when it is called
PostInit(task_id, uuid) == IF ~TruthyId(task_id) THEN uuid ELSE task_id

\* a2a_protocol.py TaskRequest, lines 32-43, as constructed
TaskRequest(task_id, description, uuid) ==
    [task_id |-> PostInit(task_id, uuid), description |-> description]
NoTaskRequest == [task_id |-> None, description |-> <<>>]

\* truth value of a result (None and the empty text are falsy)
Truthy(v) == ~v.none /\ v.text # <<>>

\* delegate_task, lines 134-140: the delegates it calls for target_agent
DelegateTaskCalls(target_agent) ==
    IF target_agent = "github-agent"
    THEN {"execute_github_task"}
    ELSE IF target_agent = "bedrock-agent-001"
    THEN {"execute_bedrock_task"}
    ELSE {}

\* a dispatch that sends every target it does not know to the github delegate
DelegateTaskOutcomesFallThrough(target_agent) ==
    IF target_agent = "bedrock-agent-001"
    THEN IF ~bedrockClient
         THEN { <<"Bedrock agent not initialized">> }
         ELSE { IF o.exc THEN <<"Failed to execute Bedrock task: ">> \o o.text ELSE o.text :
                  o \in QueryOutcomes(BedrockAnswers) }
    ELSE { o.text : o \in GithubHttpOutcomes }

\* delegate_task, lines 134-140: what the awaited delegate returns for
\* target_agent
DelegateTaskOutcomes(target_agent) ==
    IF target_agent = "github-agent"
    THEN { o.text : o \in GithubHttpOutcomes }
    ELSE IF target_agent = "bedrock-agent-001"
    THEN IF ~bedrockClient
         THEN { <<"Bedrock agent not initialized">> }
         ELSE { IF o.exc THEN <<"Failed to execute Bedrock task: ">> \o o.text ELSE o.text :
                  o \in QueryOutcomes(BedrockAnswers) }
    ELSE { <<"Agent ", target_agent, " not implemented yet">> }

\* the latest call: op names it, query or agent_key is its argument, and
\* route, config or response its result; for the calls that take a task,
\* supplied is the task_id of the message and sender its sender_id, task is
\* the TaskRequest built from it, delegates are the delegate calls issued
\* and reply is the message returned
Call(op, q, k, r, c, resp) ==
    [op |-> op, query |-> q, agent_key |-> k, route |-> r, config |-> c,
     response |-> resp, supplied |-> None, task |-> NoTaskRequest,
     delegates |-> {}, sender |-> None, reply |-> NoMessage]
NoCall == Call("none", <<>>, None, None, NotFound, NoResponse)

\* the registry as constructed from source src
RegLoaded(src) ==
    /\ source = src
    /\ agents = LoadConfig(src).agents
    /\ routingRules = LoadConfig(src).routing_rules
    /\ defaultAgent = LoadConfig(src).default_agent
    /\ lastCall = NoCall

RegInit == \E src \in Sources : RegLoaded(src)

\* the keys and ids get_agent_config is asked for
AgentKeys == {"github-agent", "bedrock-agent-001", "github-agent-001", "a3", "nobody"}

\* a route_query that answers with the agent of any matching rule
CallRouteQueryAnyMatch(query) ==
    /\ \E r \in {RouteQuery(routingRules, defaultAgent, query)}
                \cup { routingRules[i].agent : i \in { k \in 1..Len(routingRules) :
                                                        Matches(routingRules[k], Lower(query)) } } :
         lastCall' = Call("route_query", query, None, r, NotFound, NoResponse)
    /\ UNCHANGED <<source, agents, routingRules, defaultAgent>>
    /\ UNCHANGED <<supVars, clientVars, agentVars, extVars>>

\* registry.route_query(query)
CallRouteQuery(query) ==
    /\ lastCall' = Call("route_query", query, None,
                        RouteQuery(routingRules, defaultAgent, query),
                        NotFound, NoResponse)
    /\ UNCHANGED <<source, agents, routingRules, defaultAgent>>
    /\ UNCHANGED <<supVars, clientVars, agentVars, extVars>>

\* registry.get_agent_config(agent_key)
CallGetAgentConfig(agent_key) ==
    /\ lastCall' = Call("get_agent_config", <<>>, agent_key, None,
                        GetAgentConfig(agents, agent_key), NoResponse)
    /\ UNCHANGED <<source, agents, routingRules, defaultAgent>>
    /\ UNCHANGED <<supVars, clientVars, agentVars, extVars>>

\* supervisor_agent.py handle_task_request, lines 106-128, for a task_request
\* message with this description and this task_id
HandleTaskRequest(description, task_id) ==
    /\ \E uuid \in Uuids, sender_id \in Senders :
         LET task_request == TaskRequest(task_id, description, uuid)
             target_agent == RouteQuery(routingRules, defaultAgent, task_request.description)
             call(r, delegates) ==
                 LET resp == [r EXCEPT !.agent_id = SupervisorId]
                 IN  [Call("handle_task_request", description, None, target_agent,
                           NotFound, resp)
                        EXCEPT !.supplied = task_id, !.task = task_request,
                               !.delegates = delegates, !.sender = sender_id,
                               !.reply = ToMessage(resp, sender_id)]
         IN  IF TruthyId(target_agent) /\ IsAgentAvailable(agents, target_agent)
             THEN \E t \in DelegateTaskOutcomes(target_agent) :
                    lastCall' =
                      call(TaskResponse(task_request.task_id,
                                        IF Truthy(TextValue(t)) THEN "completed" ELSE "failed",
                                        TextValue(t), NoValue),
                           DelegateTaskCalls(target_agent))
             ELSE lastCall' =
                    call(TaskResponse(task_request.task_id, "failed", NoValue,
                                      TextValue(<<"No suitable agent found for task">>)),
                         {})
    /\ UNCHANGED <<source, agents, routingRules, defaultAgent>>
    /\ UNCHANGED <<supVars, clientVars, agentVars, extVars>>

\* a2a_protocol.py create_task_request, lines 102-110: the TaskRequest it
\* builds is given a generated task_id
CallCreateTaskRequest(description) ==
    /\ \E uuid \in Uuids, unused \in Uuids :
         lastCall' =
           [Call("create_task_request", description, None, None, NotFound, NoResponse)
              EXCEPT !.supplied = uuid,
                     !.task = TaskRequest(uuid, description, unused)]
    /\ UNCHANGED <<source, agents, routingRules, defaultAgent>>
    /\ UNCHANGED <<supVars, clientVars, agentVars, extVars>>

(***************************************************************************)
(* SupervisorAgent.initialize and the capability queries                   *)
(* (supervisor_agent.py, agent_registry.py).                               *)
(***************************************************************************)
\* longest sequence of initialize calls on one supervisor
MaxInits == 2

\* a descriptor of the declarative table with the keys initialize reads;
\* endpoint is <<>> for a descriptor without the key 'endpoint'
AgentEntry(i, n, ep, ty, caps) ==
    [id |-> i, name |-> n, endpoint |-> ep, type |-> ty, capabilities |-> caps]

\* the agents mappings initialize is run on: <<key, descriptor>> in file order
DiscoveryTables ==
    { <<>>,
      << <<"github-agent", AgentEntry("github-agent-001", "GitHub Agent",
                                       <<"http", "://localhost:8001">>,
                                       "GitHubAgent", {"code_search"})>>,
         <<"bedrock", AgentEntry("bedrock-agent-001", "Bedrock Agent",
                                  <<>>, "BedrockAgent", {})>>,
         <<"notes", AgentEntry("notes-001", "Notes",
                                <<"grpc", "://notes">>, "LocalAgent",
                                {"notes", "code_search"})>> >>,
      << <<"a", AgentEntry("a-001", "A", <<"http", "://a">>, "GitHubAgent", {})>>,
         <<"b", AgentEntry("b-001", "B", <<"http", "s://b">>, "BedrockAgent",
                            {"notes"})>> >> }

\* line 37: config.get('endpoint', '').startswith('http')
StartsWithHttp(endpoint) == Len(endpoint) >= 1 /\ endpoint[1] = "http"

\* what the GET of the capabilities url comes to: a 200 response with a
\* 'capabilities' list, a 200 response whose 'capabilities' is null, a
\* response with another status, or an exception of the transport
DiscoveryOutcomes ==
    { [kind |-> "ok", caps |-> c] : c \in {{}, {"issues"}, {"code_search", "issues"}} }
        \cup { [kind |-> k, caps |-> {}] : k \in {"null", "status", "exception"} }

\* discover_agent_capabilities, lines 66-90: the list it returns (null: the
\* value None taken from the response)
DiscoverAgentCapabilities(o) ==
    IF o.kind = "ok" THEN [null |-> FALSE, caps |-> o.caps]
    ELSE IF o.kind = "null" THEN [null |-> TRUE, caps |-> {}]
    ELSE [null |-> FALSE, caps |-> {}]

\* bedrock_agent/client.py get_capabilities, lines 148-154
BedrockCapabilities ==
    {"bedrock_agent_invoke", "ai_text_generation", "knowledge_base_query"}

\* config['discovered_capabilities']: absent, or a list
NotDiscovered == [set |-> FALSE, caps |-> {}]
Discovered(caps) == [set |-> TRUE, caps |-> caps]

\* the capabilities find_agents_by_capability is asked for
Capabilities == {"code_search", "issues", "notes", "ai_text_generation"}

\* agent_registry.py find_agents_by_capability, lines 45-50
RECURSIVE FindAgentsByCapability(_, _)
FindAgentsByCapability(table, capability) ==
    IF table = <<>>
    THEN <<>>
    ELSE (IF capability \in Head(table)[2].capabilities
          THEN <<Head(table)[2].id>>
          ELSE <<>>) \o FindAgentsByCapability(Tail(table), capability)

\* supervisor_agent.py get_all_capabilities, lines 285-291, as a set
GetAllCapabilities(table, disc) ==
    UNION { IF disc[i].caps # {} THEN disc[i].caps ELSE table[i][2].capabilities :
              i \in 1..Len(table) }

NoCapCall == [op |-> "none", capability |-> "", ids |-> <<>>, all |-> {}]

DiscInit ==
    /\ discovered = [i \in 1..Len(agents) |-> NotDiscovered]
    /\ initPc = [st |-> "idle", i |-> 0]
    /\ initRuns = 0
    /\ discSeen = [i \in 1..Len(agents) |-> "none"]
    /\ capCall = NoCapCall

\* initialize is called, lines 29-33
InitializeCall ==
    /\ initPc.st \in {"idle", "returned"}
    /\ initRuns < MaxInits
    /\ initRuns' = initRuns + 1
    /\ initPc' = [st |-> "loop", i |-> 1]
    /\ discSeen' = [i \in 1..Len(agents) |-> "none"]
    /\ UNCHANGED <<discovered, capCall>>
    /\ UNCHANGED <<supVars, clientVars, agentVars, regVars, convVars, a2aVars, poolVars>>

\* lines 36-64: the loop takes the next descriptor, or initialize returns
InitializeStep ==
    /\ initPc.st = "loop"
    /\ IF initPc.i > Len(agents)
       THEN /\ initPc' = [st |-> "returned", i |-> initPc.i]
            /\ UNCHANGED <<discovered, discSeen, bedrockClient>>
       ELSE LET config == agents[initPc.i][2]
            IN  IF StartsWithHttp(config.endpoint)
                THEN /\ initPc' = [st |-> "await", i |-> initPc.i]
                     /\ UNCHANGED <<discovered, discSeen, bedrockClient>>
                ELSE IF config.type = "BedrockAgent"
                THEN /\ bedrockClient' = TRUE
                     /\ discovered' = [discovered EXCEPT ![initPc.i] = Discovered(BedrockCapabilities)]
                     /\ discSeen' = [discSeen EXCEPT ![initPc.i] = "client"]
                     /\ initPc' = [st |-> "loop", i |-> initPc.i + 1]
                ELSE /\ discovered' = [discovered EXCEPT ![initPc.i] = Discovered({})]
                     /\ discSeen' = [discSeen EXCEPT ![initPc.i] = "local"]
                     /\ initPc' = [st |-> "loop", i |-> initPc.i + 1]
                     /\ UNCHANGED bedrockClient
    /\ UNCHANGED <<initRuns, capCall>>
    /\ UNCHANGED <<supPc, turns, dispatched, regGithub, gTask, bTask, joined, collateCalls,
                   collateErr, collation, supReturn>>
    /\ UNCHANGED <<clientVars, agentVars, regVars, convVars, a2aVars, poolVars>>

\* an initialize without its handlers: a discovery that fails raises
DiscoveryResponseUncaught ==
    /\ initPc.st = "await"
    /\ \E o \in DiscoveryOutcomes :
         /\ discSeen' = [discSeen EXCEPT ![initPc.i] = o.kind]
         /\ IF o.kind \in {"null", "exception"}
            THEN /\ initPc' = [st |-> "raised", i |-> initPc.i]
                 /\ UNCHANGED discovered
            ELSE /\ discovered' = [discovered EXCEPT ![initPc.i] =
                                     Discovered(DiscoverAgentCapabilities(o).caps)]
                 /\ initPc' = [st |-> "loop", i |-> initPc.i + 1]
    /\ UNCHANGED <<initRuns, capCall>>
    /\ UNCHANGED <<supVars, clientVars, agentVars, regVars, convVars, a2aVars, poolVars>>

\* lines 38-47: the awaited discover_agent_capabilities returns; a list is
\* attached, and the handler of line 45 attaches [] when using it raises
DiscoveryResponse ==
    /\ initPc.st = "await"
    /\ \E o \in DiscoveryOutcomes :
         LET capabilities == DiscoverAgentCapabilities(o)
         IN  /\ discSeen' = [discSeen EXCEPT ![initPc.i] = o.kind]
             /\ discovered' = [discovered EXCEPT ![initPc.i] =
                                 IF capabilities.null
                                 THEN Discovered({})
                                 ELSE Discovered(capabilities.caps)]
             /\ initPc' = [st |-> "loop", i |-> initPc.i + 1]
    /\ UNCHANGED <<initRuns, capCall>>
    /\ UNCHANGED <<supVars, clientVars, agentVars, regVars, convVars, a2aVars, poolVars>>

\* registry.find_agents_by_capability(capability)
CallFindAgentsByCapability(capability) ==
    /\ capCall' = [op |-> "find_agents_by_capability", capability |-> capability,
                   ids |-> FindAgentsByCapability(agents, capability), all |-> {}]
    /\ UNCHANGED <<discovered, initPc, initRuns, discSeen>>
    /\ UNCHANGED <<supVars, clientVars, agentVars, regVars, convVars, a2aVars, poolVars>>

\* supervisor.get_all_capabilities()
CallGetAllCapabilities ==
    /\ capCall' = [op |-> "get_all_capabilities", capability |-> "",
                   ids |-> <<>>, all |-> GetAllCapabilities(agents, discovered)]
    /\ UNCHANGED <<discovered, initPc, initRuns, discSeen>>
    /\ UNCHANGED <<supVars, clientVars, agentVars, regVars, convVars, a2aVars, poolVars>>

(***************************************************************************)
(* SupervisorAgent.query: the conversation log (supervisor_agent.py).      *)
(***************************************************************************)
\* longest sequence of query calls on one supervisor
MaxQueries == 6

\* lines 268-269: the length above which the log is cut, and the length it
\* is cut to
ConversationLimit == 10

\* what route_and_execute returns to query
Responses == {<<"answer">>, <<>>}

\* a log entry; the n-th user message is modelled by its ordinal
Entry(role, content) == [role |-> role, content |-> content]

\* conversation[-n:]
LastN(s, n) == IF Len(s) <= n THEN s ELSE SubSeq(s, Len(s) - n + 1, Len(s))

\* lines 268-269 (git-mcp-agent/agent.py _manage_conversation_history,
\* lines 321-325, is the same cut)
Truncate(s) ==
    IF Len(s) > ConversationLimit THEN LastN(s, ConversationLimit) ELSE s

ConvInit ==
    /\ conversation = <<>>
    /\ queryPc = "idle"
    /\ queriesDone = 0

\* lines 265-271: query is called; the user message is appended, the log is
\* cut, and route_and_execute is awaited
QueryCall ==
    /\ queryPc # "await"
    /\ queriesDone < MaxQueries
    /\ queriesDone' = queriesDone + 1
    /\ conversation' = Truncate(Append(conversation, Entry("user", queriesDone + 1)))
    /\ queryPc' = "await"
    /\ UNCHANGED <<supVars, clientVars, agentVars, regVars, discVars, a2aVars, poolVars>>

\* lines 271-274: route_and_execute returns; the response is appended
QueryReturn ==
    /\ queryPc = "await"
    /\ \E response \in Responses :
         conversation' = Append(conversation, Entry("assistant", response))
    /\ queryPc' = "returned"
    /\ UNCHANGED queriesDone
    /\ UNCHANGED <<supVars, clientVars, agentVars, regVars, discVars, a2aVars, poolVars>>

\* line 271: route_and_execute raises, and so does query
QueryRaise ==
    /\ queryPc = "await"
    /\ queryPc' = "raised"
    /\ UNCHANGED <<conversation, queriesDone>>
    /\ UNCHANGED <<supVars, clientVars, agentVars, regVars, discVars, a2aVars, poolVars>>

(***************************************************************************)
(* A2AProtocol: the message dispatcher (a2a_protocol.py).                  *)
(***************************************************************************)
\* the message types of the messages handled
MessageTypes == {"task_request", "task_response", "ping"}

\* the handlers registered; None is the value None given as a handler
Handlers == {"handle_task_request", "handle_task_response", "custom", None}

\* what an awaited handler comes to: the value it returns, or an exception
HandlerOutcomes(handler) ==
    IF handler = "handle_task_request"
    THEN { [exc |-> FALSE, value |-> "task_response"], [exc |-> TRUE, value |-> None] }
    ELSE IF handler = "handle_task_response"
    THEN { [exc |-> FALSE, value |-> None], [exc |-> TRUE, value |-> None] }
    ELSE { [exc |-> FALSE, value |-> "custom_response"] }

NoDispatch == [type |-> "none", invoked |-> <<>>, exc |-> FALSE, value |-> None]

\* __init__, line 85, and supervisor_agent.py lines 26-27
A2AInit ==
    /\ messageHandlers = [t \in {"task_request", "task_response"} |->
                            IF t = "task_request" THEN "handle_task_request"
                            ELSE "handle_task_response"]
    /\ dispatch = NoDispatch

\* a registration that drops the handlers of the other types
RegisterHandlerExclusive(message_type, handler) ==
    /\ messageHandlers' = [t \in {message_type} |-> handler]
    /\ UNCHANGED dispatch
    /\ UNCHANGED <<supVars, clientVars, agentVars, regVars, discVars, convVars, poolVars>>

\* register_handler, lines 87-88
RegisterHandler(message_type, handler) ==
    /\ messageHandlers' =
         [t \in DOMAIN messageHandlers \cup {message_type} |->
            IF t = message_type THEN handler ELSE messageHandlers[t]]
    /\ UNCHANGED dispatch
    /\ UNCHANGED <<supVars, clientVars, agentVars, regVars, discVars, convVars, poolVars>>

\* handle_message, lines 96-100, for a message of this type
HandleMessage(message_type) ==
    /\ LET handler == IF message_type \in DOMAIN messageHandlers
                      THEN messageHandlers[message_type]
                      ELSE None
       IN  IF handler # None
           THEN \E o \in HandlerOutcomes(handler) :
                  dispatch' = [type |-> message_type, invoked |-> <<handler>>,
                               exc |-> o.exc, value |-> o.value]
           ELSE dispatch' = [type |-> message_type, invoked |-> <<>>,
                             exc |-> FALSE, value |-> None]
    /\ UNCHANGED messageHandlers
    /\ UNCHANGED <<supVars, clientVars, agentVars, regVars, discVars, convVars, poolVars>>

(***************************************************************************)
(* BedrockAgentClient: the executor of the blocking invoke_agent calls     *)
(* (bedrock_agent/client.py).                                              *)
(***************************************************************************)
\* number of invocations submitted to one executor
MaxInvocations == 6

\* line 39: ThreadPoolExecutor(max_workers=4)
MaxWorkers == 4

PoolInit ==
    /\ poolQueue = <<>>
    /\ poolRunning = {}
    /\ poolDone = {}
    /\ poolSubmitted = 0

\* lines 62-68 and 110-116: run_in_executor puts the invocation on the work
\* queue of the executor
Submit ==
    /\ poolSubmitted < MaxInvocations
    /\ poolSubmitted' = poolSubmitted + 1
    /\ poolQueue' = Append(poolQueue, poolSubmitted + 1)
    /\ UNCHANGED <<poolRunning, poolDone>>
    /\ UNCHANGED <<supVars, clientVars, agentVars, regVars, discVars, convVars, a2aVars>>

\* an executor that starts a thread for every invocation
WorkerStartUnbounded ==
    /\ poolQueue # <<>>
    /\ poolRunning' = poolRunning \cup {Head(poolQueue)}
    /\ poolQueue' = Tail(poolQueue)
    /\ UNCHANGED <<poolDone, poolSubmitted>>
    /\ UNCHANGED <<supVars, clientVars, agentVars, regVars, discVars, convVars, a2aVars>>

\* line 39: one of the at most max_workers threads, idle, takes the oldest
\* invocation of the work queue and runs _invoke_agent, lines 41-49
WorkerStart ==
    /\ poolQueue # <<>>
    /\ Cardinality(poolRunning) < MaxWorkers
    /\ poolRunning' = poolRunning \cup {Head(poolQueue)}
    /\ poolQueue' = Tail(poolQueue)
    /\ UNCHANGED <<poolDone, poolSubmitted>>
    /\ UNCHANGED <<supVars, clientVars, agentVars, regVars, discVars, convVars, a2aVars>>

\* _invoke_agent returns or raises in its thread, which becomes idle
InvokeFinish(k) ==
    /\ k \in poolRunning
    /\ poolRunning' = poolRunning \ {k}
    /\ poolDone' = poolDone \cup {k}
    /\ UNCHANGED <<poolQueue, poolSubmitted>>
    /\ UNCHANGED <<supVars, clientVars, agentVars, regVars, discVars, convVars, a2aVars>>

\* the state after construction of what the calls above work on
ExtInit ==
    /\ DiscInit
    /\ ConvInit
    /\ A2AInit
    /\ PoolInit

(***************************************************************************)
(* Specifications.                                                         *)
(***************************************************************************)
\* the supervisor's turn: fan-out, join, reconciliation
NextSup ==
    \/ RouteAndExecute
    \/ CreateGithubTask
    \/ CreateBedrockTask
    \/ GithubTaskStart
    \/ GithubTaskFinish
    \/ BedrockTaskStart
    \/ BedrockTaskFinish
    \/ GatherAndCollate
    \/ CollationFinish

\* in the specifications of the turn and of the tool session the registry is
\* not consulted but through regGithub
RegQuiet == RegLoaded(MissingSource)

InitSup ==
    /\ SupInit
    /\ ClientInit
    /\ AgentInit
    /\ RegQuiet
    /\ ExtInit

SpecSup == InitSup /\ [][NextSup]_vars

\* the turn under the scheduling of the event loop: a created task is run,
\* a coroutine whose await is done is resumed, and every delegate call and
\* the reconciliation call returns or fails
SpecSupLive ==
    /\ InitSup
    /\ [][NextSup]_vars
    /\ WF_vars(CreateGithubTask)
    /\ WF_vars(CreateBedrockTask)
    /\ WF_vars(GithubTaskStart)
    /\ WF_vars(GithubTaskFinish)
    /\ WF_vars(BedrockTaskStart)
    /\ WF_vars(BedrockTaskFinish)
    /\ WF_vars(GatherAndCollate)
    /\ WF_vars(CollationFinish)

\* the supervisor is not part of the tool session's process
SupQuiet ==
    /\ SupInit
    /\ bedrockClient = FALSE
    /\ regGithub = "ok"

\* the tool session: handshake, then queries executing tool calls
NextSession ==
    \/ Initialize
    \/ InitializeResponse
    \/ NotificationResponse
    \/ ToolsListResponse
    \/ \E q \in Queries : FirstQuery(q)
    \/ \E q \in Queries : NextCall(q)
    \/ \E q \in Queries : CallDone(q)
    \/ \E q \in Queries : ExecuteToolsReturn(q)

InitSession ==
    /\ SupQuiet
    /\ ClientInit
    /\ AgentInit
    /\ RegQuiet
    /\ ExtInit

SpecSession == InitSession /\ [][NextSession]_vars

\* the tool session under the cache-fill workload
NextCache ==
    \/ Initialize
    \/ InitializeResponse
    \/ NotificationResponse
    \/ ToolsListResponse
    \/ \E q \in Queries : FillQuery(q)
    \/ \E q \in Queries : FillCall(q)
    \/ \E q \in Queries : FillDone(q)
    \/ \E q \in Queries : ExecuteToolsReturn(q)

SpecCache == InitSession /\ [][NextCache]_vars

\* the registry of a supervisor
NextRegistry ==
    \/ \E query \in Texts(MaxQueryLen) : CallRouteQuery(query)
    \/ \E agent_key \in AgentKeys : CallGetAgentConfig(agent_key)

InitRegistry ==
    /\ SupInit
    /\ RegInit
    /\ regGithub = IF GetAgentConfig(agents, "github-agent").found THEN "ok" ELSE "absent"
    /\ ClientInit
    /\ AgentInit
    /\ ExtInit

SpecRegistry == InitRegistry /\ [][NextRegistry]_vars

\* the task_request handler of a supervisor, under every task_id a message
\* can carry
NextTask ==
    \/ \E description \in Texts(MaxQueryLen), task_id \in SuppliedIds :
         HandleTaskRequest(description, task_id)
    \/ \E description \in Texts(MaxQueryLen) : CallCreateTaskRequest(description)

\* the registries the task ids are checked on
TaskSources ==
    {MissingSource}
        \cup { Table(a, <<r>>, FALSE, None) : a \in AgentTables, r \in {CatchAllRule, TieRule} }

InitTask ==
    /\ SupInit
    /\ \E src \in TaskSources : RegLoaded(src)
    /\ regGithub = IF GetAgentConfig(agents, "github-agent").found THEN "ok" ELSE "absent"
    /\ ClientInit
    /\ AgentInit
    /\ ExtInit

SpecTask == InitTask /\ [][NextTask]_vars

\* initialize and the capability queries
NextDiscovery ==
    \/ InitializeCall
    \/ InitializeStep
    \/ DiscoveryResponse
    \/ \E capability \in Capabilities : CallFindAgentsByCapability(capability)
    \/ CallGetAllCapabilities

InitDiscovery ==
    /\ SupInit
    /\ \E a \in DiscoveryTables : RegLoaded(Table(a, <<>>, FALSE, None))
    /\ regGithub = IF GetAgentConfig(agents, "github-agent").found THEN "ok" ELSE "absent"
    /\ ClientInit
    /\ AgentInit
    /\ ExtInit

SpecDiscovery == InitDiscovery /\ [][NextDiscovery]_vars

\* the conversation log under a sequence of query calls
NextConversation ==
    \/ QueryCall
    \/ QueryReturn
    \/ QueryRaise

SpecConversation == InitSup /\ [][NextConversation]_vars

\* the message dispatcher
NextDispatch ==
    \/ \E t \in MessageTypes, h \in Handlers : RegisterHandler(t, h)
    \/ \E t \in MessageTypes : HandleMessage(t)

SpecDispatch == InitSup /\ [][NextDispatch]_vars

\* the executor of one BedrockAgentClient
NextPool ==
    \/ Submit
    \/ WorkerStart
    \/ \E k \in 1..MaxInvocations : InvokeFinish(k)

\* an idle worker thread blocked on the work queue is woken by a put
SpecPool ==
    /\ InitSup
    /\ [][NextPool]_vars
    /\ WF_vars(WorkerStart)

(***************************************************************************)
(* Claims about the supervisor's fan-out and join.                         *)
(***************************************************************************)
AfterJoin == {"await_collation", "returned"}

\* C1: whatever the two delegate tasks do (return or raise), the join hands
\* both outcomes to reconciliation: route_and_execute never raises out of the
\* join, reconciliation starts only when both tasks are done, and
\* collate_responses has then been called exactly once, with both outcomes.
C1_JoinCollectsBoth ==
    /\ supPc # "raised"
    /\ supPc \in AfterJoin =>
          /\ gTask.st = "done"
          /\ bTask.st = "done"
          /\ collateCalls = << <<gTask.out, bTask.out>> >>
    /\ supPc \notin AfterJoin => collateCalls = <<>>

\* the github delegate raised, the bedrock delegate returned, and both
\* outcomes reached collate_responses
C1_Witness ==
    /\ supPc = "returned"
    /\ gTask.out.exc
    /\ bTask.out.ok
    /\ collateCalls = << <<gTask.out, bTask.out>> >>

\* C2: both delegations are issued before the orchestrator awaits either:
\* whenever the orchestrator is suspended in the join, or a delegate has
\* started to run, both tasks have been created.
C2_BothIssuedBeforeAwait ==
    (\/ supPc = "gather"
     \/ gTask.st \in {"running", "done"}
     \/ bTask.st \in {"running", "done"})
        => (gTask.st # "none" /\ bTask.st # "none")

\* both delegations are in flight at the same time
C2_Witness ==
    /\ supPc = "gather"
    /\ gTask.st = "running"
    /\ bTask.st = "running"

\* a delegate failed: it raised, or it returned a failure text
Failed(o) == ~o.ok /\ o.text # <<>>

\* C3: when one delegate fails and the other succeeds, route_and_execute
\* returns a non-empty text that contains the succeeding delegate's content
\* and the failure of the other one, on every reconciliation path.
C3_PartialFailureFanOut ==
    \A w \in {<<1, 2>>, <<2, 1>>} :
        (/\ supPc = "returned"
         /\ joined # <<>>
         /\ joined[w[1]].ok
         /\ Failed(joined[w[2]]))
            => /\ supReturn.kind = "text"
               /\ supReturn.text # <<>>
               /\ Contains(supReturn.text, joined[w[1]].text)
               /\ Contains(supReturn.text, Content(joined[w[2]]))

(***************************************************************************)
(* Claims about reconciliation.                                            *)
(***************************************************************************)
\* the two outcomes under their labels, each rendered by render
Labeled(render(_), g, b) ==
    <<"GitHub Agent: ">> \o render(g) \o <<"\n\nBedrock Agent: ">> \o render(b)

\* every failure, raised or returned as text, under the label "Error: "
FailuresAsError(o) == IF Failed(o) THEN <<"Error: ">> \o o.text ELSE o.text

\* an exception under the label "Error: ", a returned text as it is
ExceptionsAsError(o) == IF o.exc THEN <<"Error: ">> \o o.text ELSE o.text

\* the turn ended without a reconciliation client
ReturnedUnreconciled == supPc = "returned" /\ ~bedrockClient

\* C13 as stated: without a reconciliation client the turn returns the two
\* labeled outcomes, every failed delegate outcome rendered as "Error: "
\* followed by its detail.
C13_FailuresRenderedAsError ==
    ReturnedUnreconciled =>
        supReturn.text = Labeled(FailuresAsError, joined[1], joined[2])

\* C13 amended: without a reconciliation client the turn returns the two
\* labeled outcomes, an outcome that is an exception rendered as "Error: "
\* followed by its detail and an outcome returned as text, a failure message
\* included, rendered as that text.
C13_FallbackConcatenation ==
    ReturnedUnreconciled =>
        /\ supReturn.kind = "text"
        /\ supReturn.text = Labeled(ExceptionsAsError, joined[1], joined[2])

\* the github delegate raised and its exception is shown under "Error: "
C13_Witness ==
    /\ ReturnedUnreconciled
    /\ joined[1].exc
    /\ Contains(supReturn.text, <<"GitHub Agent: ", "Error: ">>)

\* the reconciliation query of this turn raised
ReconciliationFailed ==
    /\ supPc = "returned"
    /\ collation.st = "done"
    /\ collation.out.exc

\* C14: when the reconciliation query raises, the turn still returns a text:
\* the labeled concatenation of the reconciliation-unavailable case followed
\* by a note that carries the reason of the failure.
C14_ReconciliationFailureFallsBack ==
    ReconciliationFailed =>
        /\ supReturn.kind = "text"
        /\ supReturn.text =
              Labeled(ExceptionsAsError, joined[1], joined[2])
                 \o <<"\n\n(Note: Response collation failed: ">>
                 \o collation.out.text \o <<")">>

\* reconciliation failed on a turn whose bedrock delegate had answered
C14_Witness ==
    /\ ReconciliationFailed
    /\ joined[2].ok
    /\ Contains(supReturn.text, collation.out.text)

\* C15: route_and_execute never raises, what it returns is a text, and every
\* turn that was started returns.
C15_EveryTurnProducesText ==
    /\ [](supPc # "raised")
    /\ [](supPc = "returned" => supReturn.kind = "text")
    /\ (supPc \notin {"idle", "returned", "raised"}) ~> (supPc = "returned")

\* a turn returned text although the github delegate raised and the
\* reconciliation query failed
C15_Witness ==
    /\ supPc = "returned"
    /\ supReturn.kind = "text"
    /\ joined[1].exc
    /\ collation.st = "done"
    /\ collation.out.exc

(***************************************************************************)
(* Claims about the tool session.                                          *)
(***************************************************************************)
\* query q takes its next tool call in this step
Takes(q) == Len(calls'[q]) = Len(calls[q]) + 1
Taken(q) == calls'[q][Len(calls'[q])]

\* the required parameters of tool n that args does not give
Absent(n, args) ==
    { tools[n].required[i] : i \in 1..Len(tools[n].required) } \ Keys(args)

IsMissingError(r, n, args) ==
    /\ r.has = {"tool", "error"}
    /\ r.tool = n
    /\ Len(r.error) = 1 + Cardinality(Absent(n, args))
    /\ r.error[1] = "Missing required parameters: "
    /\ { r.error[i] : i \in 2..Len(r.error) } = Absent(n, args)

\* C4: a tool call that lacks a required parameter of its tool is answered
\* in the very step that takes it, by a missing-parameters error listing
\* the absent parameters, and that step puts nothing on the transport.
C4_ValidationBeforeCall ==
    [][\A q \in Queries :
         (/\ Takes(q)
          /\ Taken(q).name \in DOMAIN tools
          /\ Absent(Taken(q).name, Taken(q).arguments) # {})
            => /\ Len(results'[q]) = Len(results[q]) + 1
               /\ IsMissingError(results'[q][Len(results'[q])],
                                 Taken(q).name, Taken(q).arguments)
               /\ rpcCount' = rpcCount
               /\ rpcSent' = rpcSent
               /\ pc'[q] = "loop"]_vars

\* a call without its required parameter was refused while the session had
\* issued no tools/call at all
C4_Witness ==
    \E q \in Queries :
        /\ Len(results[q]) >= 1
        /\ calls[q][1].name \in DOMAIN tools
        /\ IsMissingError(results[q][1], calls[q][1].name, calls[q][1].arguments)
        /\ Absent(calls[q][1].name, calls[q][1].arguments) # {}
        /\ rpcCount = 0

InitializeRefused ==
    /\ Len(hsRecv) >= 1
    /\ hsRecv[1].kind = "response"
    /\ hsRecv[1].status # 200

\* C5: after an initialize that reported a non-success status the session
\* has no tools, and every tool call fails with the session-not-ready error
\* without a tools/call on the transport.
C5_RefusedSessionNotReady ==
    (hsPc = "returned" /\ InitializeRefused)
        => /\ DOMAIN tools = {}
           /\ hsReturn = 0
           /\ rpcCount = 0
           /\ \A q \in Queries : \A i \in 1..Len(results[q]) :
                results[q][i].error = <<"MCP session not initialized">>

HandshakeOrder == <<"initialize", "notifications/initialized", "tools/list">>

ListSucceeded ==
    /\ Len(hsRecv) = Len(HandshakeOrder)
    /\ hsRecv[Len(hsRecv)].kind = "response"
    /\ hsRecv[Len(hsRecv)].status = 200
    /\ hsRecv[Len(hsRecv)].body = "result"

\* C6: the handshake sends initialize, notifications/initialized and
\* tools/list in this order, each after the response to the one before;
\* nothing follows an initialize that failed; the coroutine is not started,
\* waiting for exactly one response, or returned; and the tool table is
\* non-empty only after a successful tools/list response.
C6_HandshakeSequence ==
    /\ Len(hsSent) <= Len(HandshakeOrder)
    /\ \A i \in 1..Len(hsSent) : hsSent[i].method = HandshakeOrder[i]
    /\ hsPc = "not_started" => (hsSent = <<>> /\ hsRecv = <<>>)
    /\ hsPc \in {"await_initialize", "await_notification", "await_tools_list"}
          => (Len(hsSent) = Len(hsRecv) + 1 /\ hsReturn = -1)
    /\ hsPc = "returned"
          => (Len(hsSent) = Len(hsRecv) /\ hsSent # <<>> /\ hsReturn >= 0)
    /\ (Len(hsRecv) >= 1 /\ (hsRecv[1].kind = "exception" \/ hsRecv[1].status # 200))
          => Len(hsSent) = 1
    /\ DOMAIN tools # {} => ListSucceeded
    /\ hsReturn > 0 => (hsPc = "returned" /\ ListSucceeded)

\* the session is Ready after three round trips
C6_Witness ==
    /\ hsPc = "returned"
    /\ hsReturn > 0
    /\ Len(hsSent) = 3
    /\ Len(hsRecv) = 3
    /\ DOMAIN tools # {}

\* the handshake ended in one of the failures
HandshakeFailed ==
    /\ hsPc = "returned"
    /\ ~(/\ ListSucceeded
         /\ \A i \in 1..Len(hsRecv[Len(hsRecv)].list) :
              hsRecv[Len(hsRecv)].list[i].wellFormed)

\* C7: every failed handshake returns tool count 0 and leaves the tool
\* table empty.
C7_FailureLeavesNoTools ==
    HandshakeFailed => (hsReturn = 0 /\ DOMAIN tools = {})

\* C8: the cache never holds more than 50 entries; a store of a new key
\* into a cache of 50 leaves the 40 entries stored last followed by the new
\* one, 41 in all; and after 51 distinct paths were stored into the empty
\* cache, exactly paths 11 to 51 are in it.
C8_BatchEviction ==
    [][/\ Len(resultCache') <= CacheLimit
       /\ (/\ Len(resultCache) = CacheLimit
           /\ ~(CacheKeys(resultCache') \subseteq CacheKeys(resultCache)))
            => /\ Len(resultCache') = CacheLimit + 1 - EvictBatch
               /\ SubSeq(resultCache', 1, CacheLimit - EvictBatch)
                     = SubSeq(resultCache, EvictBatch + 1, CacheLimit)
               /\ resultCache'[Len(resultCache')].key \notin CacheKeys(resultCache)
       /\ (/\ fresh' = CacheLimit + 1
           /\ issued' = fresh'
           /\ \A q \in Queries : pc'[q] # "await_rpc")
            => CacheKeys(resultCache') =
                 { <<"get_file_contents", ":", FilePath(n)>> :
                     n \in (EvictBatch + 1)..(CacheLimit + 1) }]_vars

\* path 1 was read from the cache right before path 51 was stored, and is
\* gone all the same
C8_Witness ==
    LET q == QueryOrder[1]
    IN  /\ pc[q] = "loop"
        /\ Len(calls[q]) = 2
        /\ Len(results[q]) = 2
        /\ calls[q][1].arguments = FilePath(1)
        /\ "result" \in results[q][1].has
        /\ calls[q][2].arguments = FilePath(CacheLimit + 1)
        /\ Len(resultCache) = CacheLimit + 1 - EvictBatch
        /\ resultCache[1].value.arguments = FilePath(EvictBatch + 1)
        /\ resultCache[Len(resultCache)].value.arguments = FilePath(CacheLimit + 1)

\* the cache entries stored for tool n with the key/value pairs of args
StoredFor(n, args) ==
    { i \in 1..Len(resultCache) :
        /\ resultCache[i].value.tool = n
        /\ SamePairs(resultCache[i].value.arguments, args) }

\* the key law of _get_cache_key over the tools and argument maps in use
KeyLaw ==
    \A n1, n2 \in CacheableTools : \A a1, a2 \in ArgMaps :
        (GetCacheKey(n1, a1) = GetCacheKey(n2, a2)) <=> (n1 = n2 /\ SamePairs(a1, a2))

\* C9: two argument maps give the same cache key exactly when they hold the
\* same key/value pairs for the same tool; a call to a cacheable tool is
\* answered by the result stored for the same pairs, whatever the order of
\* the keys, without a tools/call; and it is answered from the cache only
\* by a result stored for its own tool and pairs.
C9_CacheRoundTrip ==
    [][/\ KeyLaw
       /\ \A q \in Queries :
            (Takes(q) /\ Taken(q).name \in CacheableTools)
               => LET hits == StoredFor(Taken(q).name, Taken(q).arguments)
                  IN  /\ Cardinality(hits) <= 1
                      /\ \A i \in hits :
                           /\ results'[q] = Append(results[q], resultCache[i].value)
                           /\ rpcCount' = rpcCount
                      /\ hits = {} =>
                           \/ pc'[q] = "await_rpc"
                           \/ "result" \notin results'[q][Len(results'[q])].has]_vars

\* a call was answered by the result stored under the other key order
C9_Witness ==
    \E q \in Queries : \E i \in 1..Len(results[q]) :
        /\ "result" \in results[q][i].has
        /\ results[q][i].arguments # calls[q][i].arguments
        /\ SamePairs(results[q][i].arguments, calls[q][i].arguments)

\* the tool call was put on the transport
WentToProvider(c) ==
    \E r \in rpcSent : r.name = c.name /\ r.arguments = c.arguments

OnlyCacheableStored ==
    \A i \in 1..Len(resultCache) : resultCache[i].value.tool \in CacheableTools

\* C10 as stated: every cache entry belongs to a read-only tool, and every
\* completed call to another tool went to the provider.
C10_AlwaysToProvider ==
    /\ OnlyCacheableStored
    /\ \A q \in Queries : \A i \in 1..Len(results[q]) :
         calls[q][i].name \notin CacheableTools => WentToProvider(calls[q][i])

\* C10 amended: every cache entry belongs to a read-only tool; a completed
\* call to another tool went to the provider if the tool is in the tool
\* table and no required parameter is absent, and otherwise ended in an
\* error result without going to the provider.
C10_MutatingNeverCached ==
    /\ OnlyCacheableStored
    /\ \A q \in Queries : \A i \in 1..Len(results[q]) :
         LET c == calls[q][i]
         IN  c.name \notin CacheableTools =>
               IF c.name \in DOMAIN tools /\ Absent(c.name, c.arguments) = {}
               THEN /\ WentToProvider(c)
                    /\ "arguments" \in results[q][i].has
               ELSE /\ ~WentToProvider(c)
                    /\ results[q][i].has = {"tool", "error"}

\* a create_issue call was answered by the provider and the cache holds
\* nothing of it
C10_Witness ==
    \E q \in Queries : \E i \in 1..Len(results[q]) :
        /\ calls[q][i].name = "create_issue"
        /\ "result" \in results[q][i].has
        /\ OnlyCacheableStored

\* the session identifier the initialize response issued ("none": no
\* identifier, or no successful initialize)
IssuedSessionId ==
    IF Len(hsRecv) >= 1 /\ hsRecv[1].kind = "response" /\ hsRecv[1].status = 200
    THEN hsRecv[1].sid
    ELSE "none"

\* C16: every request sent after initialize, in the handshake or as a
\* tools/call, carries the session identifier the initialize response
\* issued, and carries none if none was issued.
C16_SessionIdCarried ==
    /\ \A i \in 2..Len(hsSent) : hsSent[i].sid = IssuedSessionId
    /\ \A r \in rpcSent : r.sid = IssuedSessionId

\* an identifier was issued and the notification, tools/list and a
\* tools/call were sent with it
C16_Witness ==
    /\ IssuedSessionId = "sid-1"
    /\ Len(hsSent) = 3
    /\ hsSent[2].sid = "sid-1"
    /\ hsSent[3].sid = "sid-1"
    /\ \E r \in rpcSent : r.sid = "sid-1"

\* C17: whatever the outcome of the initialized notification, tools/list is
\* sent next.
C17_NotificationFireAndForget ==
    Len(hsRecv) >= 2 =>
        /\ Len(hsSent) = 3
        /\ hsSent[3].method = "tools/list"

\* C18: a tool call whose tool is not in the tool table is answered in the
\* step that takes it by the unknown-tool error, whatever its arguments, and
\* that step puts nothing on the transport.
C18_UnknownToolRefused ==
    [][\A q \in Queries :
         (Takes(q) /\ Taken(q).name \notin DOMAIN tools)
            => /\ Len(results'[q]) = Len(results[q]) + 1
               /\ LET r == results'[q][Len(results'[q])]
                  IN  /\ r.has = {"tool", "error"}
                      /\ r.tool = Taken(q).name
                      /\ r.error = <<"Tool '", Taken(q).name, "' not available">>
               /\ rpcCount' = rpcCount
               /\ rpcSent' = rpcSent
               /\ pc'[q] = "loop"]_vars

\* on a session that lists other tools, a call to a tool the session does
\* not list, with all the arguments one could ask for, was refused
C18_Witness ==
    /\ hsReturn > 0
    /\ \E q \in Queries : \E i \in 1..Len(results[q]) :
         /\ calls[q][i].name \notin DOMAIN tools
         /\ Keys(calls[q][i].arguments) = {"owner", "query"}
         /\ results[q][i].has = {"tool", "error"}
         /\ results[q][i].error = <<"Tool '", calls[q][i].name, "' not available">>
         /\ ~WentToProvider(calls[q][i])

(***************************************************************************)
(* Claims about the registry and the task_request handler.                 *)
(***************************************************************************)
\* the rules of the registry that match query q: one of the rule's keywords
\* occurs in the lower-cased query
MatchingRules(q) ==
    { i \in 1..Len(routingRules) :
        \E k \in 1..Len(routingRules[i].keywords) :
            Contains(Lower(q), routingRules[i].keywords[k]) }

\* rule i comes before rule j: smaller priority, or equal priority and
\* declared no later
Precedes(i, j) ==
    \/ RulePriority(routingRules[i]) < RulePriority(routingRules[j])
    \/ /\ RulePriority(routingRules[i]) = RulePriority(routingRules[j])
       /\ i <= j

\* the reference routing function
ReferenceRoute(q) ==
    IF MatchingRules(q) = {}
    THEN defaultAgent
    ELSE routingRules[CHOOSE i \in MatchingRules(q) :
                         \A j \in MatchingRules(q) : Precedes(i, j)].agent

\* C11: route_query returns what the reference routing function returns:
\* the agent of the matching rule of smallest priority, the first-declared
\* one among equals, and the default agent if no rule matches.
C11_RouteMatchesReference ==
    lastCall.op = "route_query" => lastCall.route = ReferenceRoute(lastCall.query)

\* two rules match, the one declared later has the smaller priority and its
\* agent, which is not the other rule's, is the answer
C11_Witness ==
    /\ lastCall.op = "route_query"
    /\ \E i, j \in MatchingRules(lastCall.query) :
         /\ i < j
         /\ RulePriority(routingRules[j]) < RulePriority(routingRules[i])
         /\ routingRules[i].agent # routingRules[j].agent
         /\ lastCall.route = routingRules[j].agent

\* C12: every TaskResponse of handle_task_request has status failed exactly
\* when it has an error and no result, and status completed exactly when it
\* has a result and no error.
C12_FailedIffError ==
    lastCall.op = "handle_task_request" =>
        LET r == lastCall.response
        IN  /\ r.status \in {"completed", "failed"}
            /\ (r.status = "failed") <=> (~r.error.none /\ r.result.none)
            /\ (r.status = "completed") <=> (~r.result.none /\ r.error.none)

\* C19: a registry loaded from a missing or malformed source has no agents
\* and no routing rules, and routes every query to a default agent id.
C19_EmptyRegistryRoutesToDefault ==
    source.kind \in {"missing", "malformed"} =>
        /\ agents = <<>>
        /\ routingRules = <<>>
        /\ lastCall.op = "route_query" => lastCall.route # None

\* C20: get_agent_config returns the descriptor stored under the key, else
\* the first descriptor in file order whose id is the argument, else None.
C20_ResolveKeyThenId ==
    lastCall.op = "get_agent_config" =>
        LET x    == lastCall.agent_key
            keys == { i \in 1..Len(agents) : agents[i][1] = x }
            ids  == { i \in 1..Len(agents) : agents[i][2].id = x }
        IN  IF keys # {}
            THEN /\ lastCall.config.found
                 /\ \A i \in keys : lastCall.config.config = agents[i][2]
            ELSE IF ids # {}
            THEN /\ lastCall.config.found
                 /\ \E i \in ids :
                      /\ \A j \in ids : i <= j
                      /\ lastCall.config.config = agents[i][2]
            ELSE ~lastCall.config.found

\* the argument is the key of one agent and the id of another one declared
\* before it, and the answer is the agent stored under the key
C20_Witness ==
    /\ lastCall.op = "get_agent_config"
    /\ \E i, j \in 1..Len(agents) :
         /\ i < j
         /\ agents[i][2].id = lastCall.agent_key
         /\ agents[j][1] = lastCall.agent_key
         /\ agents[i][2] # agents[j][2]
         /\ lastCall.config = Found(agents[j][2])

(***************************************************************************)
(* Capability discovery claims (SpecDiscovery).                            *)
(***************************************************************************)
\* the capability set of the i-th agent: static and discovered
CapabilitySet(i, disc) == agents[i][2].capabilities \cup disc[i].caps

\* the ids of the agents from the k-th on whose capability set has c
RECURSIVE Holders(_, _, _)
Holders(k, c, disc) ==
    IF k > Len(agents)
    THEN <<>>
    ELSE (IF c \in CapabilitySet(k, disc) THEN <<agents[k][2].id>> ELSE <<>>)
            \o Holders(k + 1, c, disc)

\* C21: find_agents_by_capability(c) returns, in declaration order, the ids
\* of exactly the agents whose static or discovered capabilities contain c
C21_FindIncludesDiscovered ==
    [][(capCall' # capCall /\ capCall'.op = "find_agents_by_capability")
         => capCall'.ids = Holders(1, capCall'.capability, discovered)]_vars

\* the i-th agent has been passed by the loop of the current initialize
Processed(i) ==
    /\ initRuns >= 1
    /\ initPc.st = "returned" \/ (initPc.st \in {"loop", "await"} /\ i < initPc.i)

\* C22: initialize never raises; a failed discovery leaves that agent with
\* an empty discovered set and the loop goes on to the remaining agents, so
\* when initialize has returned every agent has a discovered set assigned
C22_InitializeBestEffort ==
    /\ initPc.st # "raised"
    /\ \A i \in 1..Len(agents) :
         Processed(i) =>
           /\ discSeen[i] # "none"
           /\ discovered[i].set
           /\ discSeen[i] \in {"null", "status", "exception"} => discovered[i].caps = {}
    /\ initPc.st = "returned" => \A i \in 1..Len(agents) : discovered[i].set

\* initialize has returned after the discovery of the first agent failed
\* with an exception and the discovery of the second one found capabilities
C22_Witness ==
    /\ initPc.st = "returned"
    /\ Len(agents) = 2
    /\ discSeen[1] = "exception"
    /\ discovered[1] = Discovered({})
    /\ discSeen[2] = "ok"
    /\ discovered[2].caps # {}

\* C28: no step removes a capability from the capability set of an agent
C28_CapabilitiesOnlyGrow ==
    [][\A i \in 1..Len(agents) :
         CapabilitySet(i, discovered) \subseteq CapabilitySet(i, discovered')]_vars

(***************************************************************************)
(* Task handling claims (SpecTask, SpecRegistry).                          *)
(***************************************************************************)
\* some descriptor of the registry has a as its key or as its id
Resolvable(a) ==
    \E i \in 1..Len(agents) : agents[i][1] = a \/ agents[i][2].id = a

\* the targets delegate_task has a delegate for
DispatchTable == {"github-agent", "bedrock-agent-001"}

\* C23: a task routed to an available agent that delegate_task has no
\* delegate for is answered with the text "Agent <target> not implemented
\* yet": no delegate is called, nothing is raised and the response is not a
\* failed one
C23_UnknownTargetNotImplemented ==
    (/\ lastCall.op = "handle_task_request"
     /\ TruthyId(lastCall.route)
     /\ Resolvable(lastCall.route)
     /\ lastCall.route \notin DispatchTable)
        => /\ lastCall.delegates = {}
           /\ lastCall.response.result =
                TextValue(<<"Agent ", lastCall.route, " not implemented yet">>)
           /\ lastCall.response.status = "completed"
           /\ lastCall.response.error.none

\* a task was routed to docs-agent, which the registry has and delegate_task
\* does not know
C23_Witness ==
    /\ lastCall.op = "handle_task_request"
    /\ lastCall.route = "docs-agent"
    /\ Resolvable("docs-agent")
    /\ lastCall.response.result = TextValue(<<"Agent ", "docs-agent", " not implemented yet">>)

\* C25: the task_id of a TaskRequest is the supplied one when that is not
\* empty and a generated one otherwise, and the response of the handler
\* carries the task_id the request was constructed with
C25_TaskIdAssignedOnce ==
    lastCall.op \in {"handle_task_request", "create_task_request"}
        => /\ TruthyId(lastCall.supplied) => lastCall.task.task_id = lastCall.supplied
           /\ ~TruthyId(lastCall.supplied) => lastCall.task.task_id \in Uuids
           /\ lastCall.op = "handle_task_request"
                => lastCall.response.task_id = lastCall.task.task_id

\* a task_request with an empty task_id was handled, and one with an id
C25_Witness ==
    /\ lastCall.op = "handle_task_request"
    /\ lastCall.supplied = ""
    /\ lastCall.task.task_id \in Uuids
    /\ lastCall.response.task_id = lastCall.task.task_id
    /\ lastCall.response.status = "completed"

\* C27: when the routed agent is None or not in the registry the response is
\* failed, with an error and no result; a task delegated to the Bedrock agent
\* while no client is initialized gets the text "Bedrock agent not
\* initialized" as its result
C27_NoAgentIsStructuredFailure ==
    lastCall.op = "handle_task_request"
        => /\ ~(TruthyId(lastCall.route) /\ Resolvable(lastCall.route))
                => /\ lastCall.response.status = "failed"
                   /\ Truthy(lastCall.response.error)
                   /\ lastCall.response.result.none
                   /\ lastCall.delegates = {}
           /\ (/\ lastCall.route = "bedrock-agent-001"
               /\ Resolvable(lastCall.route)
               /\ ~bedrockClient)
                => /\ lastCall.response.result = TextValue(<<"Bedrock agent not initialized">>)
                   /\ lastCall.response.error.none

\* a task was routed to an agent id the registry does not have
C27_Witness ==
    /\ lastCall.op = "handle_task_request"
    /\ agents # <<>>
    /\ TruthyId(lastCall.route)
    /\ ~Resolvable(lastCall.route)
    /\ lastCall.response.status = "failed"

C24_LogWithinLimit ==
    queryPc = "returned"
        => /\ Len(conversation) <= ConversationLimit
           /\ conversation[Len(conversation)].role = "assistant"

(***************************************************************************)
(* Dispatcher claim (SpecDispatch).                                        *)
(***************************************************************************)
\* the handler the table holds for message type t (None: no entry)
HandlerOf(table, t) == IF t \in DOMAIN table THEN table[t] ELSE None

\* C26: handle_message invokes the handler registered for the type of the
\* message, and only it, and returns what it returns; without a handler it
\* invokes nothing and returns None without raising; a registration sets
\* the handler of its type and leaves the handlers of the other types
C26_DispatchByType ==
    [][/\ dispatch' # dispatch
            => LET h == HandlerOf(messageHandlers, dispatch'.type)
               IN  /\ messageHandlers' = messageHandlers
                   /\ h # None
                        => /\ dispatch'.invoked = <<h>>
                           /\ [exc |-> dispatch'.exc, value |-> dispatch'.value]
                                \in HandlerOutcomes(h)
                   /\ h = None
                        => /\ dispatch'.invoked = <<>>
                           /\ ~dispatch'.exc
                           /\ dispatch'.value = None
       /\ messageHandlers' # messageHandlers
            => \E t \in MessageTypes :
                 \A u \in MessageTypes \ {t} :
                   HandlerOf(messageHandlers', u) = HandlerOf(messageHandlers, u)]_vars

\* a handler registered for ping has been invoked for a ping message while
\* the handlers of the supervisor are still registered for their types
C26_Witness ==
    /\ dispatch.type = "ping"
    /\ dispatch.invoked = <<"custom">>
    /\ dispatch.value = "custom_response"
    /\ HandlerOf(messageHandlers, "task_request") = "handle_task_request"
    /\ HandlerOf(messageHandlers, "task_response") = "handle_task_response"

(***************************************************************************)
(* Executor claim (SpecPool).                                              *)
(***************************************************************************)
\* invocation k is on the work queue
Queued(k) == \E i \in 1..Len(poolQueue) : poolQueue[i] = k

\* a worker thread is idle
WorkerFree == Cardinality(poolRunning) < MaxWorkers

\* C29: at most 4 invocations run at a time, the others wait on the work
\* queue, and if workers keep becoming free every queued invocation is run
C29_BoundedPool ==
    /\ [](Cardinality(poolRunning) <= 4)
    /\ [](\A k \in 1..MaxInvocations :
            ~(Queued(k) /\ k \in poolRunning \cup poolDone))
    /\ \A k \in 1..MaxInvocations :
         ([]<>WorkerFree) => (Queued(k) ~> (k \in poolRunning))

\* four invocations are running and two more wait on the work queue
C29_Witness ==
    /\ Cardinality(poolRunning) = 4
    /\ Len(poolQueue) = 2
    /\ poolDone = {}

(***************************************************************************)
(* Task identity claims (SpecTask, SpecSup).                               *)
(***************************************************************************)
\* C37: the message handle_task_request returns carries the task id of the
\* request it answers, is addressed to the sender of the request, has
\* type task_response and names the supervisor as its sender and responder,
\* whether an agent was found for the task or not
C37_ReplyAnswersRequest ==
    lastCall.op = "handle_task_request"
        => /\ lastCall.reply.content.task_id = lastCall.task.task_id
           /\ TruthyId(lastCall.supplied) => lastCall.reply.content.task_id = lastCall.supplied
           /\ lastCall.reply.recipient_id = lastCall.sender
           /\ lastCall.reply.message_type = "task_response"
           /\ lastCall.reply.sender_id = "supervisor-001"
           /\ lastCall.reply.content.agent_id = "supervisor-001"
           /\ lastCall.reply.content.status \in {"completed", "failed"}

\* a request of client-1 for which no agent was found has been answered
C37_Witness ==
    /\ lastCall.op = "handle_task_request"
    /\ lastCall.sender = "client-1"
    /\ lastCall.supplied = "t-1"
    /\ lastCall.delegates = {}
    /\ lastCall.response.status = "failed"
    /\ lastCall.reply.recipient_id = "client-1"
    /\ lastCall.reply.content.task_id = "t-1"

\* C38: no two TaskRequests the supervisor has built for its delegates have
\* the same task id
C38_TaskIdsUnique ==
    \A i, j \in 1..Len(dispatched) :
        i # j => dispatched[i].task_id # dispatched[j].task_id

(***************************************************************************)
(* Tool execution and cache claims (SpecSession, SpecCache).               *)
(***************************************************************************)
\* the cache key of the call query q has taken last
LastKey(q) ==
    GetCacheKey(calls[q][Len(calls[q])].name, calls[q][Len(calls[q])].arguments)

\* C31: two queries never wait at the same time for the provider's answer
\* to a call of the same cacheable tool with the same arguments
C31_NoDuplicateFill ==
    \A q1, q2 \in Queries :
        (/\ q1 # q2
         /\ pc[q1] = "await_rpc"
         /\ pc[q2] = "await_rpc"
         /\ calls[q1][Len(calls[q1])].name \in CacheableTools)
            => LastKey(q1) # LastKey(q2)

\* C32: execute_tools never raises; it has one result for every tool call
\* it has finished, in the order of the calls; a result has either an error
\* or a result payload; a call of a tool that is not in the tool table or
\* that lacks a required parameter has an error result naming the failure
C32_OneResultPerCall ==
    \A q \in Queries :
        /\ pc[q] \in {"idle", "loop", "await_rpc", "returned"}
        /\ pc[q] \in {"idle", "loop", "returned"} => Len(results[q]) = Len(calls[q])
        /\ pc[q] = "await_rpc" => Len(results[q]) + 1 = Len(calls[q])
        /\ \A i \in 1..Len(results[q]) :
             LET c == calls[q][i]
                 r == results[q][i]
             IN  /\ r.tool = c.name
                 /\ ("error" \in r.has) <=> ("result" \notin r.has)
                 /\ "error" \in r.has => (r.error # <<>> /\ r.result = "")
                 /\ c.name \notin DOMAIN tools
                      => r.error = <<"Tool '", c.name, "' not available">>
                 /\ (c.name \in DOMAIN tools /\ Absent(c.name, c.arguments) # {})
                      => IsMissingError(r, c.name, c.arguments)

\* execute_tools has returned two results: the error of a call the provider
\* failed, then the payload of the call after it
C32_Witness ==
    \E q \in Queries :
        /\ pc[q] = "returned"
        /\ Len(results[q]) = 2
        /\ results[q][1].has = {"tool", "arguments", "error"}
        /\ results[q][1].error = <<"Tool error: ", "not found">>
        /\ "result" \in results[q][2].has

\* C33: a call of a cacheable tool whose key is in the cache is answered by
\* the stored result without a tools/call, and a stored result stays the
\* one stored for its key until the entry is evicted
C33_StoredResultServed ==
    [][/\ \A q \in Queries :
            (/\ Takes(q)
             /\ Taken(q).name \in CacheableTools
             /\ GetCacheKey(Taken(q).name, Taken(q).arguments) \in CacheKeys(resultCache))
               => /\ results'[q] =
                       Append(results[q],
                              Lookup(resultCache,
                                     GetCacheKey(Taken(q).name, Taken(q).arguments)))
                  /\ rpcCount' = rpcCount
       /\ \A k \in CacheKeys(resultCache) \cap CacheKeys(resultCache') :
            Lookup(resultCache', k) = Lookup(resultCache, k)]_vars

\* C34: a step that appends an error result leaves the cache as it was, and
\* no cache entry holds an error result
C34_OnlySuccessCached ==
    [][/\ \A q \in Queries :
            (/\ Len(results'[q]) = Len(results[q]) + 1
             /\ "error" \in results'[q][Len(results'[q])].has)
               => resultCache' = resultCache
       /\ \A i \in 1..Len(resultCache') :
            /\ "error" \notin resultCache'[i].value.has
            /\ "result" \in resultCache'[i].value.has]_vars

\* a call of a cacheable tool failed at the provider, the cache holds
\* nothing for it, and the same call, made again, is at the provider
C34_Witness ==
    \E q \in Queries :
        /\ pc[q] = "await_rpc"
        /\ Len(calls[q]) = 2
        /\ calls[q][1].name \in CacheableTools
        /\ calls[q][2] = calls[q][1]
        /\ results[q] = <<CallError(calls[q][1].name, calls[q][1].arguments,
                                    <<"Tool error: ", "not found">>)>>
        /\ LastKey(q) \notin CacheKeys(resultCache)
        /\ rpcCount = 2

C36_CountMatchesTable ==
    hsPc = "returned" => hsReturn = Cardinality(DOMAIN tools)

\* C39: the required parameters of every entry of the tool table are among
\* its declared parameters
C39_RequiredAreDeclared ==
    \A n \in DOMAIN tools :
        { tools[n].required[i] : i \in 1..Len(tools[n].required) }
            \subseteq tools[n].parameters

====
